---- MODULE Spec2Model ----
(***************************************************************************)
(* Virtual structure service of hetida designer: the structure tables, the *)
(* bulk upserts of update_structure, delete_structure, the prepopulation   *)
(* at startup and the resolution of virtual structure wirings.             *)
(***************************************************************************)
EXTENDS Integers, Sequences, FiniteSets, TLC

\* Python's None for an optional string field and for an optional UUID field.
None == "None"
NoId == <<>>

\* A string in a field that also holds the string of a UUID (a wiring's ref_id
\* and the source_id, sink_id and ref_id written into it): a 1-tuple, so that it
\* compares with a UUID; the absent value of such a field is NoId.
Str(s) == <<s>>

\* The empty filter mapping.
NoFilters == [k \in {} |-> None]

\* Number of service calls a run makes.
MaxOps == 3

Range(s) == {s[i] : i \in 1..Len(s)}

\* A value computed once and named, as an assignment does: F of the value.
Bind(value, F(_)) == CHOOSE result \in {F(v) : v \in {value}} : TRUE

\* The external identity (stakeholder_key, external_id) upserts and lookups key on.
Key(r) == <<r.stakeholder_key, r.external_id>>

\* uuid.uuid4(): a value no other entity or earlier load carries. gen numbers the load.
uuid4(kind, gen, sk, ext) == <<kind, gen, sk, ext>>

----------------------------------------------------------------------------
(* The pydantic models.  A document is authored without ids; constructing   *)
(* the models assigns the default ids.  description, meta_data, visible,    *)
(* display_path and passthrough_filters are plain columns that are written  *)
(* like name and read by nothing modelled here; they are left out.          *)

StructureServiceElementType(gen, c) ==
    c @@ [id |-> uuid4("et", gen, c.stakeholder_key, c.external_id)]

StructureServiceThingNode(gen, c) ==
    c @@ [id |-> uuid4("tn", gen, c.stakeholder_key, c.external_id),
          parent_node_id |-> NoId,
          element_type_id |-> uuid4("dummy", gen, c.stakeholder_key, c.external_id)]

StructureServiceSource(gen, c) ==
    c @@ [id |-> uuid4("src", gen, c.stakeholder_key, c.external_id)]

StructureServiceSink(gen, c) ==
    c @@ [id |-> uuid4("snk", gen, c.stakeholder_key, c.external_id)]

\* CompleteStructure(**structure_json): the four lists as model objects.
CompleteStructure(gen, doc) ==
    [gen |-> gen,
     element_types |-> [i \in 1..Len(doc.element_types) |->
                           StructureServiceElementType(gen, doc.element_types[i])],
     thing_nodes |-> [i \in 1..Len(doc.thing_nodes) |->
                           StructureServiceThingNode(gen, doc.thing_nodes[i])],
     sources |-> [i \in 1..Len(doc.sources) |->
                           StructureServiceSource(gen, doc.sources[i])],
     sinks |-> [i \in 1..Len(doc.sinks) |->
                           StructureServiceSink(gen, doc.sinks[i])]]

----------------------------------------------------------------------------
(* CompleteStructure's validators, on the authored lists.                   *)

check_element_types_not_empty(doc) == doc.element_types # <<>>

\* Every parent_external_node_id is the external_id of some node of the document.
validate_root_nodes_parent_ids_are_none(doc) ==
    LET external_ids == {n.external_id : n \in Range(doc.thing_nodes)}
    IN \A n \in Range(doc.thing_nodes) :
          n.parent_external_node_id # None => n.parent_external_node_id \in external_ids

NoDuplicateKeys(list) ==
    \A i, j \in 1..Len(list) : i # j => Key(list[i]) # Key(list[j])

check_for_duplicate_key_and_id_pairs(doc) ==
    /\ NoDuplicateKeys(doc.element_types)
    /\ NoDuplicateKeys(doc.thing_nodes)
    /\ NoDuplicateKeys(doc.sources)
    /\ NoDuplicateKeys(doc.sinks)

NoDuplicateEntries(ids) == \A i, j \in 1..Len(ids) : i # j => ids[i] # ids[j]

check_for_duplicate_ids_in_thing_node_external_ids(doc) ==
    /\ \A s \in Range(doc.sources) : NoDuplicateEntries(s.thing_node_external_ids)
    /\ \A s \in Range(doc.sinks) : NoDuplicateEntries(s.thing_node_external_ids)

\* The children of a node, in document order: the nodes naming its external_id.
ChildNodes(thing_nodes, external_id) ==
    SelectSeq(thing_nodes, LAMBDA n : n.parent_external_node_id = external_id)

\* The depth-first walk from one root: the stack's last node is popped, skipped
\* when its external_id was visited, compared with the root's stakeholder_key,
\* and its children are pushed in document order.
RECURSIVE StakeholderWalk(_, _, _, _)
StakeholderWalk(thing_nodes, expected, stack, visited) ==
    IF stack = <<>> THEN TRUE
    ELSE LET current == stack[Len(stack)]
             rest == SubSeq(stack, 1, Len(stack) - 1)
         IN IF current.external_id \in visited
            THEN StakeholderWalk(thing_nodes, expected, rest, visited)
            ELSE IF current.stakeholder_key # expected THEN FALSE
            ELSE StakeholderWalk(thing_nodes, expected,
                                 rest \o ChildNodes(thing_nodes, current.external_id),
                                 visited \cup {current.external_id})

check_stakeholder_key_consistency(doc) ==
    \A root \in Range(doc.thing_nodes) :
        root.parent_external_node_id = None =>
            StakeholderWalk(doc.thing_nodes, root.stakeholder_key, <<root>>, {})

\* nodes_by_external_id: a dict comprehension, so the last node of an external_id wins.
NodeByExternalId(thing_nodes, external_id) ==
    LET idx == {i \in 1..Len(thing_nodes) : thing_nodes[i].external_id = external_id}
    IN thing_nodes[CHOOSE i \in idx : \A j \in idx : j <= i]

\* visit(node): FALSE stands for "Circular reference detected".
RECURSIVE Visit(_, _, _)
Visit(thing_nodes, node, visited) ==
    IF node.external_id \in visited THEN FALSE
    ELSE LET parent == node.parent_external_node_id
         IN IF parent # None /\ parent \in {n.external_id : n \in Range(thing_nodes)}
            THEN Visit(thing_nodes, NodeByExternalId(thing_nodes, parent),
                       visited \cup {node.external_id})
            ELSE TRUE

check_for_circular_reference(doc) ==
    \A n \in Range(doc.thing_nodes) : Visit(doc.thing_nodes, n, {})

validate_source_sink_references(doc) ==
    LET thing_node_ids == {n.external_id : n \in Range(doc.thing_nodes)}
    IN /\ \A s \in Range(doc.sources) : Range(s.thing_node_external_ids) \subseteq thing_node_ids
       /\ \A s \in Range(doc.sinks) : Range(s.thing_node_external_ids) \subseteq thing_node_ids

\* A document CompleteStructure(...) constructs without a validation error.
ValidCompleteStructure(doc) ==
    /\ check_element_types_not_empty(doc)
    /\ validate_root_nodes_parent_ids_are_none(doc)
    /\ check_for_duplicate_key_and_id_pairs(doc)
    /\ check_for_duplicate_ids_in_thing_node_external_ids(doc)
    /\ check_stakeholder_key_consistency(doc)
    /\ check_for_circular_reference(doc)
    /\ validate_source_sink_references(doc)
----------------------------------------------------------------------------
(* The persistence layer.  A table is the set of its rows; the database is  *)
(* a record of the six tables.                                              *)

EmptyDB ==
    [element_types |-> {}, thing_nodes |-> {}, sources |-> {}, sinks |-> {},
     thingnode_source_association |-> {}, thingnode_sink_association |-> {}]

\* One row of INSERT ... ON CONFLICT (external_id, stakeholder_key) DO UPDATE:
\* a row of the same key takes the new values except in the columns of keep;
\* the primary key and the UNIQUE name are checked against the other rows.
UpsertRow(table, row, keep) ==
    Bind({r \in table : Key(r) = Key(row)}, LAMBDA hit :
    Bind(IF hit = {} THEN row
         ELSE LET old == CHOOSE r \in hit : TRUE
              IN [c \in DOMAIN row |-> IF c \in keep THEN old[c] ELSE row[c]],
         LAMBDA new :
            IF \E r \in table \ hit : r.name = new.name \/ r.id = new.id
            THEN [ok |-> FALSE, table |-> table, row |-> new]
            ELSE [ok |-> TRUE, table |-> (table \ hit) \cup {new}, row |-> new]))

RECURSIVE UpsertRows(_, _, _, _)
UpsertRows(table, returned, rows, keep) ==
    IF rows = <<>> THEN [ok |-> TRUE, table |-> table, returned |-> returned]
    ELSE Bind(UpsertRow(table, Head(rows), keep), LAMBDA r :
            IF r.ok
            THEN UpsertRows(r.table, returned \cup {r.row}, Tail(rows), keep)
            ELSE [ok |-> FALSE, table |-> table, returned |-> {}])

\* The bulk statement with .returning(): the table after it and the rows it
\* returns, or ok = FALSE for an IntegrityError.
on_conflict_do_update(table, rows, keep) == UpsertRows(table, {}, rows, keep)

\* The result of one step inside the session: the working copy of the database,
\* the rows handed to the caller and the exception, if one was raised.
Step(db, returned, error) == [db |-> db, returned |-> returned, error |-> error]

\* upsert_element_types with "id" among the updated columns.
upsert_element_types_setting_id(d, elements) ==
    IF elements = <<>> THEN Step(d, {}, "")
    ELSE Bind(on_conflict_do_update(d.element_types, elements, {}), LAMBDA up :
            IF up.ok
            THEN Step([d EXCEPT !.element_types = up.table], up.returned, "")
            ELSE Step(d, {}, "DBIntegrityError"))

upsert_element_types(db, elements) ==
    IF elements = <<>> THEN Step(db, {}, "")
    ELSE Bind(on_conflict_do_update(db.element_types, elements, {"id"}), LAMBDA up :
            IF up.ok
            THEN Step([db EXCEPT !.element_types = up.table], up.returned, "")
            ELSE Step(db, {}, "DBIntegrityError"))

\* The node's parent among a collection of nodes: the node of its
\* stakeholder_key and parent_external_node_id, if it names one and one is there.
ParentsIn(nodes, tn) ==
    IF tn.parent_external_node_id = None THEN {}
    ELSE {p \in nodes : Key(p) = <<tn.stakeholder_key, tn.parent_external_node_id>>}

\* set_parent_ids: the in-place assignment of parent_node_id, from the ids the
\* document's own models carry.
set_parent_ids(thing_nodes) ==
    [i \in 1..Len(thing_nodes) |->
        Bind(ParentsIn(Range(thing_nodes), thing_nodes[i]), LAMBDA parents :
            IF parents # {}
            THEN [thing_nodes[i] EXCEPT
                     !.parent_node_id = (CHOOSE p \in parents : TRUE).id]
            ELSE thing_nodes[i])]

\* update_parent_ids on the rows the upsert returned.
update_parent_ids(thing_node_dbmodels) ==
    {Bind(ParentsIn(thing_node_dbmodels, tn), LAMBDA parents :
        IF parents # {}
        THEN [tn EXCEPT !.parent_node_id = (CHOOSE p \in parents : TRUE).id]
        ELSE tn)
     : tn \in thing_node_dbmodels}

\* thing_node_dicts: the nodes whose element type is among the element types
\* handed in, with its id as element_type_id; the other nodes are skipped.
ThingNodeDicts(thing_nodes, existing_element_types) ==
    LET element_type(n) ==
            {et \in existing_element_types :
                Key(et) = <<n.stakeholder_key, n.element_type_external_id>>}
    IN Bind(SelectSeq(thing_nodes, LAMBDA n : element_type(n) # {}), LAMBDA kept :
          [i \in 1..Len(kept) |->
              [kept[i] EXCEPT
                  !.element_type_id = (CHOOSE et \in element_type(kept[i]) : TRUE).id]])

\* The foreign key of parent_node_id on the thing-node table.
ParentForeignKeyHolds(table) ==
    \A r \in table : r.parent_node_id # NoId => \E p \in table : p.id = r.parent_node_id

\* upsert_thing_nodes leaving only the upserted rows in the table.
upsert_thing_nodes_replacing_table(d, enforced, thing_nodes, existing_element_types) ==
    Bind(ThingNodeDicts(thing_nodes, existing_element_types), LAMBDA thing_node_dicts :
        IF thing_node_dicts = <<>> THEN Step(d, {}, "")
        ELSE Bind(on_conflict_do_update(d.thing_nodes, thing_node_dicts,
                                        {"id", "parent_node_id"}), LAMBDA up :
            IF ~up.ok \/ (enforced /\ ~ParentForeignKeyHolds(up.table))
            THEN Step(d, {}, "DBIntegrityError")
            ELSE Bind(update_parent_ids(up.returned), LAMBDA dbmodels :
                    Step([d EXCEPT !.thing_nodes = dbmodels], dbmodels, ""))))

\* The statement inserts a new row with the parent_node_id its model carries;
\* the flush after update_parent_ids writes the ids of the returned parents.
upsert_thing_nodes(db, fk, thing_nodes, existing_element_types) ==
    Bind(ThingNodeDicts(thing_nodes, existing_element_types), LAMBDA thing_node_dicts :
        IF thing_node_dicts = <<>> THEN Step(db, {}, "")
        ELSE Bind(on_conflict_do_update(db.thing_nodes, thing_node_dicts,
                                        {"id", "parent_node_id"}), LAMBDA up :
            IF ~up.ok \/ (fk /\ ~ParentForeignKeyHolds(up.table))
            THEN Step(db, {}, "DBIntegrityError")
            ELSE Bind(update_parent_ids(up.returned), LAMBDA dbmodels :
                    Step([db EXCEPT !.thing_nodes =
                             {r \in up.table : \A t \in dbmodels : Key(t) # Key(r)}
                                 \cup dbmodels],
                         dbmodels, ""))))

\* source.thing_nodes = [...]: the rows of the association table of one source
\* (or sink) are replaced by the links to the upserted thing nodes it names.
AssignRelationships(assoc, dbmodels, existing_thing_nodes) ==
    {a \in assoc : \A s \in dbmodels : a[2] # s.id}
    \cup {<<p[1].id, p[2].id>> : p \in
            {q \in existing_thing_nodes \X dbmodels :
                /\ q[1].stakeholder_key = q[2].stakeholder_key
                /\ q[1].external_id \in Range(q[2].thing_node_external_ids)}}

\* upsert_sources with "id" among the updated columns.
upsert_sources_setting_id(d, sources, existing_thing_nodes) ==
    IF sources = <<>> THEN Step(d, {}, "")
    ELSE Bind(on_conflict_do_update(d.sources, sources, {}), LAMBDA up :
            IF up.ok
            THEN Step([d EXCEPT !.sources = up.table,
                                !.thingnode_source_association =
                                    AssignRelationships(@, up.returned,
                                                        existing_thing_nodes)],
                      up.returned, "")
            ELSE Step(d, {}, "DBIntegrityError"))

upsert_sources(db, sources, existing_thing_nodes) ==
    IF sources = <<>> THEN Step(db, {}, "")
    ELSE Bind(on_conflict_do_update(db.sources, sources, {"id"}), LAMBDA up :
            IF up.ok
            THEN Step([db EXCEPT !.sources = up.table,
                                 !.thingnode_source_association =
                                     AssignRelationships(@, up.returned,
                                                         existing_thing_nodes)],
                      up.returned, "")
            ELSE Step(db, {}, "DBIntegrityError"))

upsert_sinks(db, sinks, existing_thing_nodes) ==
    IF sinks = <<>> THEN Step(db, {}, "")
    ELSE Bind(on_conflict_do_update(db.sinks, sinks, {"id"}), LAMBDA up :
            IF up.ok
            THEN Step([db EXCEPT !.sinks = up.table,
                                 !.thingnode_sink_association =
                                     AssignRelationships(@, up.returned,
                                                         existing_thing_nodes)],
                      up.returned, "")
            ELSE Step(db, {}, "DBIntegrityError"))

\* What a service call leaves: the committed database, the error it raised and
\* the statements or service calls it made.
Outcome(db, error, calls) == [db |-> db, error |-> error, calls |-> calls]

\* The session's outcome without the rollback: the writes made before the
\* exception stay.
CommitWithoutRollback(before, step, calls) == Outcome(step.db, step.error, calls)

\* The session ends: commit if no step raised, else the state before the call.
Commit(before, step, calls) ==
    IF step.error = "" THEN Outcome(step.db, "", calls)
    ELSE Outcome(before, step.error, calls)

update_structure(db, fk, complete_structure) ==
    Bind(upsert_element_types(db, complete_structure.element_types), LAMBDA ets :
    IF ets.error # "" THEN Commit(db, ets, <<>>)
    ELSE
    Bind(set_parent_ids(complete_structure.thing_nodes), LAMBDA thing_nodes :
    Bind(upsert_thing_nodes(ets.db, fk, thing_nodes, ets.returned), LAMBDA tns :
    IF tns.error # "" THEN Commit(db, tns, <<>>)
    ELSE
    Bind(upsert_sources(tns.db, complete_structure.sources, tns.returned), LAMBDA srcs :
    IF srcs.error # "" THEN Commit(db, srcs, <<>>)
    ELSE
    Bind(upsert_sinks(srcs.db, complete_structure.sinks, tns.returned), LAMBDA snks :
    Commit(db, snks, <<>>))))))

\* The tables whose rows hold a foreign key into a table.
ReferencedBy(table) ==
    CASE table = "sources" -> {"thingnode_source_association"}
      [] table = "sinks" -> {"thingnode_sink_association"}
      [] table = "thing_nodes" -> {"thingnode_source_association",
                                   "thingnode_sink_association"}
      [] table = "element_types" -> {"thing_nodes"}
      [] OTHER -> {}

\* The tables in the order delete_structure empties them.
DeleteOrder ==
    <<"thingnode_source_association", "thingnode_sink_association",
      "sources", "sinks", "thing_nodes", "element_types">>

\* session.execute(delete(table)) for each table in turn; a DELETE that leaves
\* rows referencing the emptied table is an IntegrityError where foreign keys
\* are enforced.  Returned is the sequence of tables whose DELETE was executed.
RECURSIVE DeleteTables(_, _, _, _)
DeleteTables(db, fk, tables, executed) ==
    IF tables = <<>> THEN Step(db, executed, "")
    ELSE IF fk /\ \E t \in ReferencedBy(Head(tables)) : db[t] # {}
    THEN Step(db, Append(executed, Head(tables)), "DBIntegrityError")
    ELSE DeleteTables([db EXCEPT ![Head(tables)] = {}], fk, Tail(tables),
                      Append(executed, Head(tables)))

\* delete_structure without the DELETEs on the association tables.
delete_structure_entities_only(d, enforced) ==
    Bind(DeleteTables(d, enforced,
                      <<"sources", "sinks", "thing_nodes", "element_types">>, <<>>),
         LAMBDA step : Commit(d, step, step.returned))

\* The six DELETEs and session.commit(); an exception leaves the session
\* without a commit.
delete_structure(db, fk) ==
    Bind(DeleteTables(db, fk, DeleteOrder, <<>>),
         LAMBDA step : Commit(db, step, step.returned))

are_structure_tables_empty(db) ==
    ~(\/ db.element_types # {}
      \/ db.thing_nodes # {}
      \/ db.sources # {}
      \/ db.sinks # {})

\* prepopulate_structure with the configured structure and overwrite flag:
\* the database it leaves, the error it raises and the service calls it makes.
prepopulate_structure(db, fk, overwrite, complete_structure) ==
    IF overwrite /\ ~are_structure_tables_empty(db)
    THEN Bind(delete_structure(db, fk), LAMBDA deleted :
            IF deleted.error # ""
            THEN Outcome(deleted.db, "StructurePrepopulationError",
                         <<"delete_structure">>)
            ELSE Bind(update_structure(deleted.db, fk, complete_structure),
                      LAMBDA updated :
                        Outcome(updated.db,
                                IF updated.error # ""
                                THEN "StructurePrepopulationError" ELSE "",
                                <<"delete_structure", "update_structure">>)))
    ELSE Bind(update_structure(db, fk, complete_structure), LAMBDA updated :
            Outcome(updated.db,
                    IF updated.error # "" THEN "StructurePrepopulationError" ELSE "",
                    <<"update_structure">>))

----------------------------------------------------------------------------
(* The structure documents the runs load: small families that cover         *)
(* hierarchies, links, renames, name collisions and two stakeholders.       *)

ElementType(sk, ext, name) ==
    [stakeholder_key |-> sk, external_id |-> ext, name |-> name]

ThingNode(sk, ext, name, parent, et) ==
    [stakeholder_key |-> sk, external_id |-> ext, name |-> name,
     parent_external_node_id |-> parent, element_type_external_id |-> et]

Source(sk, ext, name, thing_node_external_ids) ==
    [stakeholder_key |-> sk, external_id |-> ext, name |-> name,
     type |-> "FLOAT", adapter_key |-> "sql-adapter", source_id |-> Str(ext),
     ref_key |-> None, ref_id |-> NoId, preset_filters |-> NoFilters,
     thing_node_external_ids |-> thing_node_external_ids]

Sink(sk, ext, name, thing_node_external_ids) ==
    [stakeholder_key |-> sk, external_id |-> ext, name |-> name,
     type |-> "FLOAT", adapter_key |-> "sql-adapter", sink_id |-> Str(ext),
     ref_key |-> None, ref_id |-> NoId, preset_filters |-> NoFilters,
     thing_node_external_ids |-> thing_node_external_ids]

Doc(ets, tns, srcs, snks) ==
    [element_types |-> ets, thing_nodes |-> tns, sources |-> srcs, sinks |-> snks]

Type1 == ElementType("s1", "e1", "Type 1")
Type2 == ElementType("s2", "e1", "Type 2")

NodeName == [a |-> "Node a", b |-> "Node b"]

\* Nodes of stakeholder s1; no document defines an element type "e2".
Nodes ==
    {ThingNode("s1", "a", NodeName["a"], p, e) :
        p \in {None, "a", "b"}, e \in {"e1", "e2"}}
    \cup {ThingNode("s1", "b", NodeName["b"], p, "e1") : p \in {None, "a", "b"}}

HierarchyDocs ==
    {Doc(<<Type1>>, tns, <<>>, <<>>) :
        tns \in {<<>>} \cup {<<n>> : n \in Nodes}
                \cup {<<n, m>> : n \in {k \in Nodes : k.external_id = "a"},
                                 m \in {k \in Nodes : k.external_id = "b"}}}

RootA == ThingNode("s1", "a", "Node a", None, "e1")
RootB == ThingNode("s1", "b", "Node b", None, "e1")
UntypedA == ThingNode("s1", "a", "Node a", None, "e2")

LinkDocs ==
    {Doc(<<Type1>>, tns, srcs, snks) :
        tns \in {<<RootA, RootB>>, <<UntypedA, RootB>>},
        srcs \in {<<>>} \cup {<<Source("s1", "x", "Source x", ids)>> :
                                ids \in {<<>>, <<"a">>, <<"a", "b">>}},
        snks \in {<<>>, <<Sink("s1", "y", "Sink y", <<"a">>)>>}}

NameDocs ==
    {Doc(<<ElementType("s1", "e1", "Type 1 renamed")>>,
         <<ThingNode("s1", "a", "Node a renamed", None, "e1")>>, <<>>, <<>>),
     Doc(<<Type1, ElementType("s1", "e3", "Type 1")>>, <<RootA>>, <<>>, <<>>),
     Doc(<<Type1, ElementType("s1", "e3", "Type 3")>>,
         <<ThingNode("s1", "a", "Node b", None, "e3")>>, <<>>, <<>>),
     Doc(<<Type1>>, <<RootA, RootB>>,
         <<Source("s1", "x", "Source x", <<"a">>),
           Source("s1", "z", "Source x", <<"b">>)>>, <<>>),
     Doc(<<Type1>>, <<RootA, RootB>>,
         <<Source("s1", "x", "Source x renamed", <<"b">>)>>, <<>>),
     Doc(<<Type1>>, <<RootA, RootB>>,
         <<Source("s1", "x", "Source x", <<"a">>)>>,
         <<Sink("s1", "y", "Sink y", <<"a">>), Sink("s1", "w", "Sink y", <<>>)>>)}

Root2A == ThingNode("s2", "a", "Node a of s2", None, "e1")

StakeholderDocs ==
    {Doc(<<Type1, Type2>>, tns, <<>>, <<>>) :
        tns \in {<<RootA, Root2A>>,
                 <<Root2A, ThingNode("s1", "b", "Node b", "a", "e1"),
                   ThingNode("s2", "b", "Node b of s2", "a", "e1")>>}}
    \cup {Doc(<<Type1, Type2>>, <<Root2A>>,
               <<Source("s2", "x", "Source x of s2", <<"a">>)>>, <<>>),
           Doc(<<Type1, Type2>>, <<RootA>>,
               <<Source("s2", "x", "Source x of s2", <<"a">>)>>, <<>>)}

Documents ==
    {doc \in HierarchyDocs \cup LinkDocs \cup NameDocs \cup StakeholderDocs :
        ValidCompleteStructure(doc)}

----------------------------------------------------------------------------
(* The service under a sequence of calls.                                    *)

VARIABLES
    db,     \* the six structure tables
    fk,     \* whether the database enforces foreign keys (PostgreSQL; SQLite
            \* only with PRAGMA foreign_keys)
    pre,    \* the tables before the last call
    last,   \* the last call: operation, arguments, raised error, calls made
    ops,    \* number of calls made
    workflow_wiring,    \* the WorkflowWiring object of the last resolution
    submitted,          \* that object as the caller built it
    request,    \* the other arguments of the last call
    response    \* what the last call returned

vars == <<db, fk, pre, last, ops, workflow_wiring, submitted, request, response>>

\* No call made yet.
Nothing == <<>>

NoWiring == [input_wirings |-> <<>>, output_wirings |-> <<>>]

NoStructure == CompleteStructure(0, Doc(<<>>, <<>>, <<>>, <<>>))

Init ==
    /\ db = EmptyDB
    /\ fk \in BOOLEAN
    /\ pre = EmptyDB
    /\ last = [op |-> "none", S |-> NoStructure, error |-> "", calls |-> <<>>,
               again |-> FALSE, overwrite |-> FALSE]
    /\ ops = 0
    /\ workflow_wiring = NoWiring
    /\ submitted = NoWiring
    /\ request = Nothing
    /\ response = Nothing

\* One call: its outcome and whether it repeats the previous call on the same
\* document.
Call(op, S, out, again) ==
    /\ db' = out.db
    /\ pre' = db
    /\ last' = [op |-> op, S |-> S, error |-> out.error, calls |-> out.calls,
                again |-> again, overwrite |-> FALSE]
    /\ ops' = ops + 1
    /\ UNCHANGED <<fk, workflow_wiring, submitted, request, response>>

\* update_structure on a freshly constructed CompleteStructure.
UpdateStructure ==
    /\ ops < MaxOps
    /\ \E doc \in Documents :
          \E S \in {CompleteStructure(ops + 1, doc)} :
             \E out \in {update_structure(db, fk, S)} :
                Call("update_structure", S, out,
                     /\ last.op = "update_structure"
                     /\ last.S = CompleteStructure(last.S.gen, doc))

\* update_structure called again on the object the previous call was given.
UpdateStructureAgain ==
    /\ ops < MaxOps
    /\ last.op = "update_structure"
    /\ \E out \in {update_structure(db, fk, last.S)} :
          Call("update_structure", last.S, out, TRUE)

DeleteStructure ==
    /\ ops < MaxOps
    /\ \E out \in {delete_structure(db, fk)} :
          Call("delete_structure", NoStructure, out, FALSE)

Next == UpdateStructure \/ UpdateStructureAgain \/ DeleteStructure

Spec == Init /\ [][Next]_vars
----------------------------------------------------------------------------
(* Properties of update_structure and delete_structure.                      *)

EntityTables == {"element_types", "thing_nodes", "sources", "sinks"}

Updated == last.op = "update_structure"
Succeeded == last.error = ""

\* An entity as authored: a row or model object without the internal ids.
Authored(r) ==
    [f \in DOMAIN r \ {"id", "parent_node_id", "element_type_id"} |-> r[f]]

\* C1: update_structure called a second time in a row on the same document
\* (the same object or a fresh load of it) leaves the database as the first
\* call left it: the same rows with the same internal UUIDs, parent pointers
\* and association links.
C1_UpdateTwiceIsUpdateOnce == (Updated /\ last.again) => db = pre

\* The second of two successful calls on one document, loaded afresh so that its
\* in-memory ids differ from the stored ones, on a database that held rows
\* before the first call and holds a child node and a link after it.
C1_Witness ==
    /\ Updated /\ last.again /\ Succeeded /\ ops = 3
    /\ \E r \in db.thing_nodes, n \in Range(last.S.thing_nodes) :
          Key(r) = Key(n) /\ r.id # n.id /\ r.parent_node_id # NoId
    /\ db.thingnode_source_association # {}

\* C2: across update_structure calls an entity stored under (stakeholder_key,
\* external_id) keeps its internal UUID, whatever in-memory id, fields or links
\* the later document carries for that identity.
C2_StoredIdKept ==
    Updated =>
        \A t \in EntityTables : \A old \in pre[t], new \in db[t] :
            Key(old) = Key(new) => old.id = new.id

\* A successful update whose document renames a stored source, links it to
\* another thing node and carries another in-memory id for it.
C2_Witness ==
    /\ Updated /\ Succeeded
    /\ \E old \in pre.sources, s \in Range(last.S.sources) :
          /\ Key(old) = Key(s) /\ old.id # s.id /\ old.name # s.name
          /\ old.thing_node_external_ids # s.thing_node_external_ids
          /\ \E new \in db.sources : Key(new) = Key(s) /\ new.name = s.name

\* C3: update_structure deletes nothing: every element type, thing node, source
\* and sink stored before the call is stored after it, so no table shrinks.
C3_NothingDeleted ==
    Updated =>
        \A t \in EntityTables :
            /\ {Key(r) : r \in pre[t]} \subseteq {Key(r) : r \in db[t]}
            /\ Cardinality(db[t]) >= Cardinality(pre[t])

\* A successful update whose document lacks a stored thing node and a stored source.
C3_Witness ==
    /\ Updated /\ Succeeded
    /\ \E r \in pre.thing_nodes : \A n \in Range(last.S.thing_nodes) : Key(n) # Key(r)
    /\ \E r \in pre.sources : \A n \in Range(last.S.sources) : Key(n) # Key(r)

\* The rows of a table as authored, against the entities of a document list.
StoredAsAuthored(table, entities) ==
    /\ {Authored(r) : r \in table} = {Authored(e) : e \in Range(entities)}
    /\ Cardinality(table) = Len(entities)

\* C4: after a successful update_structure(S) on an empty database the stored
\* element types, thing nodes, sources and sinks are exactly those of S, one row
\* per entity, up to the internal UUIDs.
C4_RoundTrip ==
    (Updated /\ Succeeded /\ pre = EmptyDB) =>
        \A t \in EntityTables : StoredAsAuthored(db[t], last.S[t])

\* The stored thing node under a key, if any.
StoredThingNodes(sk, ext) == {r \in db.thing_nodes : Key(r) = <<sk, ext>>}

\* C5: after a successful update_structure(S) every stored thing node of S
\* that names a parent_external_node_id points with parent_node_id at the
\* stored thing node of that external id and the same stakeholder_key.
C5_ParentPointers ==
    (Updated /\ Succeeded) =>
        \A n \in Range(last.S.thing_nodes) :
            n.parent_external_node_id # None =>
                \A r \in StoredThingNodes(n.stakeholder_key, n.external_id) :
                    \E p \in StoredThingNodes(n.stakeholder_key,
                                              n.parent_external_node_id) :
                        r.parent_node_id = p.id

\* The thing nodes linked to a stored source or sink in an association table.
Linked(assoc, id) == {a[1] : a \in {l \in assoc : l[2] = id}}

\* The stored thing nodes a document entity names in thing_node_external_ids.
Named(e) ==
    {r.id : r \in {n \in db.thing_nodes :
                      /\ n.stakeholder_key = e.stakeholder_key
                      /\ n.external_id \in Range(e.thing_node_external_ids)}}

\* C6: after a successful update_structure(S) each source and sink of S is
\* linked to exactly the thing nodes its thing_node_external_ids name, one
\* per listed id.
C6_LinksReplaced ==
    (Updated /\ Succeeded) =>
        /\ \A s \in Range(last.S.sources) : \A r \in db.sources :
              Key(r) = Key(s) =>
                  /\ Linked(db.thingnode_source_association, r.id) = Named(s)
                  /\ Cardinality(Named(s)) = Len(s.thing_node_external_ids)
        /\ \A s \in Range(last.S.sinks) : \A r \in db.sinks :
              Key(r) = Key(s) =>
                  /\ Linked(db.thingnode_sink_association, r.id) = Named(s)
                  /\ Cardinality(Named(s)) = Len(s.thing_node_external_ids)

\* C7: an update_structure that raises leaves the database as it was before
\* the call, whichever step raised.
C7_AllOrNothing == (Updated /\ ~Succeeded) => db = pre

\* A call that raised in upsert_sinks after the element types, thing nodes and
\* sources of its document had been written in the session.
C7_Witness ==
    /\ Updated /\ ~Succeeded /\ db = pre
    /\ \E ets \in {upsert_element_types(pre, last.S.element_types)} :
       \E tns \in {upsert_thing_nodes(ets.db, fk, set_parent_ids(last.S.thing_nodes),
                                      ets.returned)} :
       \E srcs \in {upsert_sources(tns.db, last.S.sources, tns.returned)} :
          /\ ets.error = "" /\ tns.error = "" /\ srcs.error = ""
          /\ ets.db.element_types # pre.element_types
          /\ tns.db.thing_nodes # pre.thing_nodes
          /\ srcs.db.sources # pre.sources

\* C8: delete_structure succeeds from every state and leaves all six tables
\* empty, so that are_structure_tables_empty holds; its DELETEs run on the two
\* association tables, then sources, sinks, thing nodes and element types.
C8_DeleteWipesAll ==
    last.op = "delete_structure" =>
        /\ Succeeded
        /\ \A t \in DOMAIN db : db[t] = {}
        /\ are_structure_tables_empty(db)
        /\ last.calls = <<"thingnode_source_association", "thingnode_sink_association",
                          "sources", "sinks", "thing_nodes", "element_types">>

\* A delete_structure on a database that held rows in all six tables, under
\* enforced foreign keys.
C8_Witness ==
    /\ last.op = "delete_structure" /\ Succeeded /\ fk
    /\ \A t \in DOMAIN pre : pre[t] # {}
    /\ db = EmptyDB

----------------------------------------------------------------------------
(* Prepopulation at startup: the database is what an earlier run left, the  *)
(* configuration names the structure and the overwrite flag.                *)

\* The databases an earlier run's update_structure can have left.
EarlierRuns(enforced) ==
    {update_structure(EmptyDB, enforced, CompleteStructure(0, doc)).db :
        doc \in Documents}

InitPrepopulate ==
    /\ fk \in BOOLEAN
    /\ db \in EarlierRuns(fk)
    /\ pre = db
    /\ last = [op |-> "none", S |-> NoStructure, error |-> "", calls |-> <<>>,
               again |-> FALSE, overwrite |-> FALSE]
    /\ ops = 0
    /\ workflow_wiring = NoWiring
    /\ submitted = NoWiring
    /\ request = Nothing
    /\ response = Nothing

\* prepopulate_structure, run once when the application starts.
PrepopulateStructure ==
    /\ last.op = "none"
    /\ \E overwrite \in BOOLEAN, doc \in Documents :
          \E S \in {CompleteStructure(1, doc)} :
          \E out \in {prepopulate_structure(db, fk, overwrite, S)} :
             /\ db' = out.db
             /\ pre' = db
             /\ last' = [op |-> "prepopulate_structure", S |-> S, error |-> out.error,
                         calls |-> out.calls, again |-> FALSE,
                         overwrite |-> overwrite]
             /\ ops' = ops + 1
             /\ UNCHANGED <<fk, workflow_wiring, submitted, request, response>>

NextPrepopulate == PrepopulateStructure

SpecPrepopulate == InitPrepopulate /\ [][NextPrepopulate]_vars

\* C9: prepopulate_structure calls delete_structure once, before
\* update_structure, exactly when the overwrite flag is set and the structure
\* tables are not empty, and otherwise never; and with the flag set on a
\* database holding a structure, after a successful load of B the tables hold
\* exactly B.
C9_PrepopulateOverwrites ==
    last.op = "prepopulate_structure" =>
        /\ last.calls = IF last.overwrite /\ ~are_structure_tables_empty(pre)
                        THEN <<"delete_structure", "update_structure">>
                        ELSE <<"update_structure">>
        /\ (last.overwrite /\ ~are_structure_tables_empty(pre) /\ Succeeded) =>
              \A t \in EntityTables : StoredAsAuthored(db[t], last.S[t])

----------------------------------------------------------------------------
(* Resolution of virtual structure wirings.  A wiring is the record of the  *)
(* fields update_wirings reads and writes.                                  *)

\* Length of the input and of the output wiring list of a workflow wiring.
MaxWirings == 2

\* The default of the fetch functions' batch_size parameter.
batch_size == 500

\* math.ceil(n / d) for a positive d.
Ceil(n, d) == (n + d - 1) \div d

\* itertools.batched(ids, n): consecutive chunks of n ids, the last one shorter.
RECURSIVE batched(_, _)
batched(ids, n) ==
    IF ids = <<>> THEN <<>>
    ELSE IF Len(ids) <= n THEN <<ids>>
    ELSE <<SubSeq(ids, 1, n)>> \o batched(SubSeq(ids, n + 1, Len(ids)), n)

\* The orders in which a query without ORDER BY may return a set of rows.
RECURSIVE Orders(_)
Orders(rows) ==
    IF rows = {} THEN {<<>>}
    ELSE UNION {{<<r>> \o o : o \in Orders(rows \ {r})} : r \in rows}

\* sources[src.id] = ... for each row of a batch result: a dict keeps the
\* position of a key it already holds.  The dict is the sequence of its values.
RECURSIVE DictInsert(_, _)
DictInsert(dict, rows) ==
    IF rows = <<>> THEN dict
    ELSE DictInsert(IF \E i \in 1..Len(dict) : dict[i].id = Head(rows).id
                    THEN dict ELSE Append(dict, Head(rows)),
                    Tail(rows))

\* The dicts the loop over the batches can build.
RECURSIVE FetchBatches(_, _, _)
FetchBatches(table, batches, dict) ==
    IF batches = <<>> THEN {dict}
    ELSE UNION {FetchBatches(table, Tail(batches), DictInsert(dict, result)) :
                    result \in Orders({r \in table : r.id \in Range(Head(batches))})}

\* The id lists of the IN queries of one fetch:
\* batched(src_ids, ceil(len(src_ids) / batch_size)).
id_batches(ids, size) == batched(ids, Ceil(Len(ids), size))

\* The possible results of a fetch by ids: the dict, or DBNotFoundError when it
\* stays empty.
FetchCollection(table, ids) ==
    IF ids = <<>> THEN {[returned |-> <<>>, error |-> ""]}
    ELSE {[returned |-> dict,
           error |-> IF dict = <<>> THEN "DBNotFoundError" ELSE ""] :
            dict \in FetchBatches(table, id_batches(ids, batch_size), <<>>)}

fetch_collection_of_sources_from_db_by_id(d, src_ids) ==
    FetchCollection(d.sources, src_ids)

fetch_collection_of_sinks_from_db_by_id(d, sink_ids) ==
    FetchCollection(d.sinks, sink_ids)

\* get_enumerated_ids_of_vst_sources_or_sinks without the test of adapter_id.
get_enumerated_ids_of_all_sources_or_sinks(wirings) ==
    Bind([i \in 1..Len(wirings) |-> i],
         LAMBDA indices :
            [indices |-> indices,
             ref_ids |-> [k \in 1..Len(indices) |-> wirings[indices[k]].ref_id]])

\* The indices and ref_ids of the wirings of the virtual structure adapter.
get_enumerated_ids_of_vst_sources_or_sinks(wirings) ==
    Bind(SelectSeq([i \in 1..Len(wirings) |-> i],
                   LAMBDA i : wirings[i].adapter_id = "virtual-structure-adapter"),
         LAMBDA indices :
            [indices |-> indices,
             ref_ids |-> [k \in 1..Len(indices) |-> wirings[indices[k]].ref_id]])

\* Python's dict union a | b: the keys of both, the right operand's value on a
\* common key.
DictUnion(a, b) ==
    [k \in DOMAIN a \cup DOMAIN b |-> IF k \in DOMAIN b THEN b[k] ELSE a[k]]

\* update_wirings with the metadata branch taken for every type.
update_wirings_as_metadata(wiring, source_or_sink) ==
    [wiring EXCEPT
        !.adapter_id = source_or_sink.adapter_key,
        !.ref_id = source_or_sink.ref_id,
        !.ref_key = source_or_sink.ref_key,
        !.ref_id_type = "THINGNODE",
        !.filters = DictUnion(@, source_or_sink.preset_filters)]

\* update_wirings with the operands of the filter merge exchanged.
update_wirings_caller_wins(wiring, source_or_sink) ==
    [wiring EXCEPT
        !.adapter_id = source_or_sink.adapter_key,
        !.ref_id = IF wiring.type = "metadata(any)" THEN source_or_sink.ref_id
                   ELSE IF "source_id" \in DOMAIN source_or_sink
                   THEN source_or_sink.source_id ELSE source_or_sink.sink_id,
        !.ref_key = IF wiring.type = "metadata(any)" THEN source_or_sink.ref_key ELSE @,
        !.ref_id_type = IF wiring.type = "metadata(any)" THEN "THINGNODE" ELSE @,
        !.filters = DictUnion(source_or_sink.preset_filters, @)]

update_wirings(wiring, source_or_sink) ==
    [wiring EXCEPT
        !.adapter_id = source_or_sink.adapter_key,
        !.ref_id = IF wiring.type = "metadata(any)" THEN source_or_sink.ref_id
                   ELSE IF "source_id" \in DOMAIN source_or_sink
                   THEN source_or_sink.source_id ELSE source_or_sink.sink_id,
        !.ref_key = IF wiring.type = "metadata(any)" THEN source_or_sink.ref_key ELSE @,
        !.ref_id_type = IF wiring.type = "metadata(any)" THEN "THINGNODE" ELSE @,
        !.filters = DictUnion(@, source_or_sink.preset_filters)]

\* for idx, entry in zip(indices, dict.values(), strict=True): the pairs are
\* rewritten in place, then ValueError is raised if one side is longer.
UpdateZipped(wirings, indices, entries) ==
    LET n == IF Len(indices) < Len(entries) THEN Len(indices) ELSE Len(entries)
    IN [wirings |-> [j \in 1..Len(wirings) |->
                        IF \E k \in 1..n : indices[k] = j
                        THEN update_wirings(wirings[j],
                                            entries[CHOOSE k \in 1..n : indices[k] = j])
                        ELSE wirings[j]],
        error |-> IF Len(indices) # Len(entries) THEN "ValueError" ELSE ""]

Resolved(ww, error) == [workflow_wiring |-> ww, error |-> error]

\* resolve_virtual_structure_wirings: the object after the call and the
\* exception raised, for each result the two fetches can deliver.
resolve_virtual_structure_wirings(d, ww) ==
    Bind(get_enumerated_ids_of_vst_sources_or_sinks(ww.input_wirings), LAMBDA ins :
    Bind(get_enumerated_ids_of_vst_sources_or_sinks(ww.output_wirings), LAMBDA outs :
    IF ins.ref_ids = <<>> /\ outs.ref_ids = <<>> THEN {Resolved(ww, "")}
    ELSE {IF virtual_sources.error # "" \/ virtual_sinks.error # ""
          THEN Resolved(ww, "AdapterHandlingException")
          ELSE Bind(UpdateZipped(ww.input_wirings, ins.indices,
                                 virtual_sources.returned), LAMBDA inputs :
               IF inputs.error # ""
               THEN Resolved([ww EXCEPT !.input_wirings = inputs.wirings],
                             inputs.error)
               ELSE Bind(UpdateZipped(ww.output_wirings, outs.indices,
                                      virtual_sinks.returned), LAMBDA outputs :
                    Resolved([input_wirings |-> inputs.wirings,
                              output_wirings |-> outputs.wirings],
                             outputs.error)))
          : virtual_sources \in fetch_collection_of_sources_from_db_by_id(d, ins.ref_ids),
            virtual_sinks \in fetch_collection_of_sinks_from_db_by_id(d, outs.ref_ids)}))

\* The structures behind the resolved wirings: a source of a time series
\* adapter, optionally a metadata source, and a sink, with their preset filters.
PresetFilters ==
    {NoFilters, [k \in {"from"} |-> "preset"], [k \in {"from", "unit"} |-> "preset"]}

CallerFilters ==
    {NoFilters, [k \in {"from"} |-> "caller"], [k \in {"from", "to"} |-> "caller"]}

SeriesSource(preset_filters) ==
    [Source("s1", "x", "Source x", <<"a">>) EXCEPT !.preset_filters = preset_filters]

MetadataSource(preset_filters) ==
    [Source("s1", "z", "Source z", <<"a">>) EXCEPT
        !.type = "metadata(any)", !.adapter_key = "kafka-adapter",
        !.ref_key = "location", !.ref_id = Str("plant"),
        !.preset_filters = preset_filters]

SeriesSink(preset_filters) ==
    [Sink("s1", "y", "Sink y", <<"a">>) EXCEPT !.preset_filters = preset_filters]

AdapterDocuments ==
    {Doc(<<Type1>>, <<RootA>>, srcs, <<SeriesSink(py)>>) :
        srcs \in {<<SeriesSource(px)>> : px \in PresetFilters}
                 \cup {<<SeriesSource(px), MetadataSource(pz)>> :
                          px \in PresetFilters,
                          pz \in {NoFilters, [k \in {"from"} |-> "preset"]}},
        py \in {NoFilters, [k \in {"from", "unit"} |-> "preset"]}}

Wiring(adapter_id, ref_id, type, filters) ==
    [adapter_id |-> adapter_id, ref_id |-> ref_id, ref_id_type |-> None,
     ref_key |-> None, type |-> type, filters |-> filters]

\* The wirings a caller can build against a table: of the virtual structure
\* adapter, naming a stored entry (with or without a ref_key and ref_id_type
\* of the caller's) or an id no entry has, and of another adapter, naming a
\* stored entry too.
WiringsFor(table, kind) ==
    {Wiring("virtual-structure-adapter", r.id, r.type, f) :
        r \in table, f \in CallerFilters}
    \cup {[Wiring("virtual-structure-adapter", r.id, r.type, NoFilters) EXCEPT
              !.ref_key = "Location", !.ref_id_type = "SOURCE"] : r \in table}
    \cup {Wiring("sql-adapter", r.id, r.type, [k \in {"from"} |-> "caller"]) :
              r \in table}
    \cup {Wiring("virtual-structure-adapter", uuid4(kind, 9, "s1", "gone"), "FLOAT",
                 NoFilters)}

Lists(pool, n) == UNION {[1..m -> pool] : m \in 0..n}

WorkflowWirings(d) ==
    {[input_wirings |-> i, output_wirings |-> o] :
        i \in Lists(WiringsFor(d.sources, "src"), MaxWirings),
        o \in Lists(WiringsFor(d.sinks, "snk"), MaxWirings - 1)}

InitResolve ==
    /\ fk \in BOOLEAN
    /\ db \in {update_structure(EmptyDB, fk, CompleteStructure(0, doc)).db :
                  doc \in AdapterDocuments}
    /\ pre = db
    /\ last = [op |-> "none", S |-> NoStructure, error |-> "", calls |-> <<>>,
               again |-> FALSE, overwrite |-> FALSE]
    /\ ops = 0
    /\ workflow_wiring = NoWiring
    /\ submitted = NoWiring
    /\ request = Nothing
    /\ response = Nothing

\* One execution request: resolve_virtual_structure_wirings on the caller's
\* WorkflowWiring.
ResolveWirings ==
    /\ last.op = "none"
    /\ \E ww \in WorkflowWirings(db) :
          \E out \in resolve_virtual_structure_wirings(db, ww) :
             /\ workflow_wiring' = out.workflow_wiring
             /\ submitted' = ww
             /\ last' = [last EXCEPT !.op = "resolve_virtual_structure_wirings",
                                     !.error = out.error]
             /\ ops' = ops + 1
             /\ UNCHANGED <<db, fk, pre, request, response>>

NextResolve == ResolveWirings

SpecResolve == InitResolve /\ [][NextResolve]_vars

ResolvedAll == last.op = "resolve_virtual_structure_wirings" /\ Succeeded

\* The merge law between a submitted wiring, the entries of its ref_id and the
\* wiring after the call.
FiltersMerged(before, entries, after) ==
    \E e \in entries :
        /\ e.id = before.ref_id
        /\ DOMAIN after.filters = DOMAIN before.filters \cup DOMAIN e.preset_filters
        /\ \A k \in DOMAIN after.filters :
              after.filters[k] = IF k \in DOMAIN e.preset_filters
                                 THEN e.preset_filters[k] ELSE before.filters[k]

\* C10: after a resolution, each wiring of the virtual structure adapter carries
\* the caller's filters merged with the preset_filters of the entry its ref_id
\* named: the preset value on a common key, and the keys of only one of the two
\* maps with their value.
C10_FilterMerge ==
    ResolvedAll =>
        /\ \A i \in 1..Len(submitted.input_wirings) :
              submitted.input_wirings[i].adapter_id = "virtual-structure-adapter" =>
                  FiltersMerged(submitted.input_wirings[i], db.sources,
                                workflow_wiring.input_wirings[i])
        /\ \A i \in 1..Len(submitted.output_wirings) :
              submitted.output_wirings[i].adapter_id = "virtual-structure-adapter" =>
                  FiltersMerged(submitted.output_wirings[i], db.sinks,
                                workflow_wiring.output_wirings[i])

\* A resolution of two source wirings and a sink wiring where a caller's filters
\* and the entry's presets share the key "from" with different values and each
\* holds a key the other lacks.
C10_Witness ==
    /\ ResolvedAll
    /\ Len(submitted.input_wirings) = 2 /\ Len(submitted.output_wirings) = 1
    /\ \A i \in 1..2 : submitted.input_wirings[i].adapter_id = "virtual-structure-adapter"
    /\ submitted.output_wirings[1].adapter_id = "virtual-structure-adapter"
    /\ \E i \in 1..2 :
          /\ DOMAIN submitted.input_wirings[i].filters = {"from", "to"}
          /\ DOMAIN workflow_wiring.input_wirings[i].filters = {"from", "to", "unit"}
          /\ workflow_wiring.input_wirings[i].filters["from"] = "preset"
          /\ workflow_wiring.input_wirings[i].filters["to"] = "caller"

\* The wirings of the virtual structure adapter among the submitted ones, as
\* positions of the input and of the output list.
Called == last.op = "resolve_virtual_structure_wirings"

VstInputs ==
    {i \in 1..Len(submitted.input_wirings) :
        submitted.input_wirings[i].adapter_id = "virtual-structure-adapter"}

VstOutputs ==
    {i \in 1..Len(submitted.output_wirings) :
        submitted.output_wirings[i].adapter_id = "virtual-structure-adapter"}

\* C11: after resolve_virtual_structure_wirings, whether it returned or raised,
\* the input and the output list have the length they had, and every wiring of
\* another adapter than the virtual structure adapter is, at its index, equal
\* in every field to the wiring submitted there.
C11_Passthrough ==
    Called =>
        /\ Len(workflow_wiring.input_wirings) = Len(submitted.input_wirings)
        /\ Len(workflow_wiring.output_wirings) = Len(submitted.output_wirings)
        /\ \A i \in 1..Len(submitted.input_wirings) \ VstInputs :
              workflow_wiring.input_wirings[i] = submitted.input_wirings[i]
        /\ \A i \in 1..Len(submitted.output_wirings) \ VstOutputs :
              workflow_wiring.output_wirings[i] = submitted.output_wirings[i]

\* A successful resolution that rewrote the second input wiring and the output
\* wiring while the first input wiring, of the sql adapter and naming a stored
\* source, stayed as submitted.
C11_Witness ==
    /\ ResolvedAll
    /\ Len(submitted.input_wirings) = 2
    /\ VstInputs = {2} /\ VstOutputs = {1}
    /\ submitted.input_wirings[1].ref_id \in {r.id : r \in db.sources}
    /\ workflow_wiring.input_wirings[1] = submitted.input_wirings[1]
    /\ workflow_wiring.input_wirings[2] # submitted.input_wirings[2]
    /\ workflow_wiring.output_wirings[1] # submitted.output_wirings[1]

\* Every submitted wiring of the virtual structure adapter names a stored
\* source (inputs) or sink (outputs).
AllReferencesStored ==
    /\ \A i \in VstInputs : submitted.input_wirings[i].ref_id \in {r.id : r \in db.sources}
    /\ \A i \in VstOutputs : submitted.output_wirings[i].ref_id \in {r.id : r \in db.sinks}

\* The wiring after the call carries the adapter_key of the entry its ref_id
\* named before the call.
OwnAdapterKey(before, entries, after) ==
    \E e \in entries : e.id = before.ref_id /\ after.adapter_id = e.adapter_key

\* C12: after resolve_virtual_structure_wirings on wirings whose references are
\* all stored, the wiring at each index of the virtual structure adapter carries
\* the adapter_key of the source (inputs) or sink (outputs) whose id was that
\* wiring's ref_id, two wirings naming the same entry included.
C12_OwnReference ==
    (Called /\ AllReferencesStored) =>
        /\ \A i \in VstInputs :
              OwnAdapterKey(submitted.input_wirings[i], db.sources,
                            workflow_wiring.input_wirings[i])
        /\ \A i \in VstOutputs :
              OwnAdapterKey(submitted.output_wirings[i], db.sinks,
                            workflow_wiring.output_wirings[i])

\* Two input wirings name the same stored source: the call raises ValueError
\* with the first rewritten and the second still of the virtual structure
\* adapter.
C12_SameSourceTwice ==
    /\ Called /\ AllReferencesStored
    /\ Len(submitted.input_wirings) = 2 /\ VstInputs = {1, 2}
    /\ submitted.input_wirings[1].ref_id = submitted.input_wirings[2].ref_id
    /\ last.error = "ValueError"
    /\ workflow_wiring.input_wirings[1].adapter_id = "sql-adapter"
    /\ workflow_wiring.input_wirings[2].adapter_id = "virtual-structure-adapter"

\* The same law for the calls whose wirings name pairwise different entries.
C12_DistinctReferences ==
    (/\ Called /\ AllReferencesStored
     /\ \A i, j \in VstInputs :
           i # j => submitted.input_wirings[i].ref_id # submitted.input_wirings[j].ref_id
     /\ \A i, j \in VstOutputs :
           i # j => submitted.output_wirings[i].ref_id # submitted.output_wirings[j].ref_id) =>
        /\ Succeeded
        /\ \A i \in VstInputs :
              OwnAdapterKey(submitted.input_wirings[i], db.sources,
                            workflow_wiring.input_wirings[i])
        /\ \A i \in VstOutputs :
              OwnAdapterKey(submitted.output_wirings[i], db.sinks,
                            workflow_wiring.output_wirings[i])

\* The rewrite rule between a submitted wiring, the entry of its ref_id and the
\* wiring after the call; reference is the entry's source_id or sink_id.
RefRewritten(before, entries, after) ==
    \E e \in entries :
        /\ e.id = before.ref_id
        /\ IF before.type = "metadata(any)"
           THEN /\ after.ref_id = e.ref_id
                /\ after.ref_key = e.ref_key
                /\ after.ref_id_type = "THINGNODE"
           ELSE /\ after.ref_id = IF "source_id" \in DOMAIN e THEN e.source_id
                                  ELSE e.sink_id
                /\ after.ref_key = before.ref_key
                /\ after.ref_id_type = before.ref_id_type

\* C13: after a resolution, a wiring of the virtual structure adapter of type
\* metadata(any) carries the ref_id and ref_key of the entry its ref_id named
\* and the ref_id_type THINGNODE; one of another type carries the entry's
\* source_id (inputs) or sink_id (outputs) as ref_id and the ref_key and
\* ref_id_type it was submitted with.
C13_RefIdRewrite ==
    ResolvedAll =>
        /\ \A i \in VstInputs :
              RefRewritten(submitted.input_wirings[i], db.sources,
                           workflow_wiring.input_wirings[i])
        /\ \A i \in VstOutputs :
              RefRewritten(submitted.output_wirings[i], db.sinks,
                           workflow_wiring.output_wirings[i])

\* A resolution of a metadata(any) input wiring, of an input wiring of another
\* type submitted with a ref_key and ref_id_type of the caller's, and of an
\* output wiring.
C13_Witness ==
    /\ ResolvedAll
    /\ VstInputs = {1, 2} /\ VstOutputs = {1}
    /\ submitted.input_wirings[1].type = "metadata(any)"
    /\ workflow_wiring.input_wirings[1].ref_id = Str("plant")
    /\ workflow_wiring.input_wirings[1].ref_key = "location"
    /\ workflow_wiring.input_wirings[1].ref_id_type = "THINGNODE"
    /\ submitted.input_wirings[2].type # "metadata(any)"
    /\ submitted.input_wirings[2].ref_key = "Location"
    /\ workflow_wiring.input_wirings[2].ref_id = Str("x")
    /\ workflow_wiring.input_wirings[2].ref_key = "Location"
    /\ workflow_wiring.input_wirings[2].ref_id_type = "SOURCE"
    /\ workflow_wiring.output_wirings[1].ref_id = Str("y")

\* C14: when a submitted wiring of the virtual structure adapter names an id
\* that no source (inputs) or sink (outputs) has, the call raises
\* AdapterHandlingException, also when other wirings of the request name stored
\* entries.
C14_MissingReferenceFails ==
    (Called /\ ~AllReferencesStored) => last.error = "AdapterHandlingException"

\* The first input wiring names a stored source and the second an id no source
\* has: the call raises ValueError with the first wiring rewritten.
C14_OneOfTwoMissing ==
    /\ Called
    /\ VstInputs = {1, 2} /\ VstOutputs = {}
    /\ submitted.input_wirings[1].ref_id \in {r.id : r \in db.sources}
    /\ submitted.input_wirings[2].ref_id \notin {r.id : r \in db.sources}
    /\ last.error = "ValueError"
    /\ workflow_wiring.input_wirings[1].adapter_id = "sql-adapter"

\* The same law for the calls in which no input wiring of the virtual structure
\* adapter names a stored source, or no output wiring a stored sink.
C14_NothingFound ==
    (/\ Called
     /\ \/ /\ VstInputs # {}
           /\ \A i \in VstInputs :
                 submitted.input_wirings[i].ref_id \notin {r.id : r \in db.sources}
        \/ /\ VstOutputs # {}
           /\ \A i \in VstOutputs :
                 submitted.output_wirings[i].ref_id \notin {r.id : r \in db.sinks}) =>
        /\ last.error = "AdapterHandlingException"
        /\ workflow_wiring = submitted

----------------------------------------------------------------------------
(* sort_thing_nodes on the thing nodes of a document.                        *)

\* Length of the list given to sort_thing_nodes.
MaxNodes == 4

\* The external ids of the sorted nodes, in the order of Python's str "<".
ExternalIds == <<"a", "b", "c", "d">>

Rank(external_id) ==
    CHOOSE i \in 1..Len(ExternalIds) : ExternalIds[i] = external_id

\* thing_node_map.get(parent_key), as the set of the node found: the dict
\* comprehension keeps the last node of a key; empty for a key no node has.
thing_node_map_get(thing_nodes, parent_key) ==
    {thing_nodes[i] : i \in {i \in 1..Len(thing_nodes) :
                                /\ Key(thing_nodes[i]) = parent_key
                                /\ \A j \in (i + 1)..Len(thing_nodes) :
                                      Key(thing_nodes[j]) # parent_key}}

\* The parent set_parent_ids finds for tn, as a set: empty if it looks for
\* none or finds none.
parent_tn(thing_nodes, tn) ==
    IF tn.parent_external_node_id = None THEN {}
    ELSE thing_node_map_get(thing_nodes,
                            <<tn.stakeholder_key, tn.parent_external_node_id>>)

\* children_by_node_id.get(node_id, []) as set_parent_ids fills it: the nodes
\* whose parent was found with this id, in list order, parent_node_id set.
children_by_node_id(thing_nodes, node_id) ==
    SelectSeq(set_parent_ids(thing_nodes),
              LAMBDA tn : \E parent \in parent_tn(thing_nodes, tn) :
                             parent.id = node_id)

\* sorted(children, key=lambda x: x.external_id): a stable sort.
RECURSIVE sorted(_)
sorted(children) ==
    IF children = <<>> THEN <<>>
    ELSE Bind(sorted(SubSeq(children, 1, Len(children) - 1)), LAMBDA front :
         Bind(children[Len(children)], LAMBDA x :
            SelectSeq(front, LAMBDA y : Rank(y.external_id) <= Rank(x.external_id))
            \o <<x>>
            \o SelectSeq(front, LAMBDA y : Rank(y.external_id) > Rank(x.external_id))))

\* next_level_nodes after the loop over current_level_nodes.
RECURSIVE next_level_nodes(_, _)
next_level_nodes(thing_nodes, current_level_nodes) ==
    IF current_level_nodes = <<>> THEN <<>>
    ELSE sorted(children_by_node_id(thing_nodes, Head(current_level_nodes).id))
         \o next_level_nodes(thing_nodes, Tail(current_level_nodes))

\* The while loop over the queue: sorted_nodes_by_level as the sequence of the
\* levels processed, from the level current_level_nodes on.
RECURSIVE sorted_nodes_by_level(_, _)
sorted_nodes_by_level(thing_nodes, current_level_nodes) ==
    Bind(next_level_nodes(thing_nodes, current_level_nodes), LAMBDA next :
        IF next = <<>> THEN <<current_level_nodes>>
        ELSE <<current_level_nodes>> \o sorted_nodes_by_level(thing_nodes, next))

RECURSIVE flattened_nodes(_)
flattened_nodes(levels) ==
    IF levels = <<>> THEN <<>> ELSE Head(levels) \o flattened_nodes(Tail(levels))

root_nodes(thing_nodes) ==
    SelectSeq(set_parent_ids(thing_nodes),
              LAMBDA tn : tn.parent_external_node_id = None)

\* sort_thing_nodes without the traversal: the list as given, parent ids set.
sort_thing_nodes_as_given(thing_nodes) == set_parent_ids(thing_nodes)

sort_thing_nodes(thing_nodes) ==
    flattened_nodes(sorted_nodes_by_level(thing_nodes, root_nodes(thing_nodes)))

\* The lists of up to max thing nodes with pairwise different external ids,
\* in every order, each node a root or naming any external id as parent.
SortedLists(max) ==
    UNION {{[i \in 1..m |-> ThingNode("s1", ids[i], ids[i], parents[i], "e1")] :
                ids \in {f \in [1..m -> Range(ExternalIds)] :
                            \A i, j \in 1..m : i # j => f[i] # f[j]},
                parents \in [1..m -> {None} \cup Range(ExternalIds)]} :
           m \in 0..max}

InitSort ==
    /\ db = EmptyDB
    /\ fk = FALSE
    /\ pre = EmptyDB
    /\ last = [op |-> "none", S |-> NoStructure, error |-> "", calls |-> <<>>,
               again |-> FALSE, overwrite |-> FALSE]
    /\ ops = 0
    /\ workflow_wiring = NoWiring
    /\ submitted = NoWiring
    /\ request = Nothing
    /\ response = Nothing

\* sort_thing_nodes on the thing nodes of a constructed CompleteStructure.
SortThingNodes ==
    /\ last.op = "none"
    /\ \E authored \in SortedLists(MaxNodes) :
          \E S \in {CompleteStructure(1, Doc(<<Type1>>, authored, <<>>, <<>>))} :
             /\ request' = authored
             /\ response' = sort_thing_nodes(S.thing_nodes)
             /\ last' = [last EXCEPT !.op = "sort_thing_nodes", !.S = S]
             /\ ops' = ops + 1
             /\ UNCHANGED <<db, fk, pre, workflow_wiring, submitted>>

NextSort == SortThingNodes

SpecSort == InitSort /\ [][NextSort]_vars

Sorted == last.op = "sort_thing_nodes"

\* The list given to the last sort is a document's valid hierarchy in which
\* every parent reference names a node of the list.
ValidForest ==
    /\ ValidCompleteStructure(Doc(<<Type1>>, request, <<>>, <<>>))
    /\ \A i \in 1..Len(request) :
          request[i].parent_external_node_id # None =>
              parent_tn(request, request[i]) # {}

\* The ancestors of a node in a list, following parent_external_node_id for at
\* most fuel steps.
RECURSIVE AncestorsOf(_, _, _)
AncestorsOf(thing_nodes, tn, fuel) ==
    IF fuel = 0 THEN {}
    ELSE UNION {{Key(parent)} \cup AncestorsOf(thing_nodes, parent, fuel - 1) :
                   parent \in parent_tn(thing_nodes, tn)}

\* C15: the list sort_thing_nodes returns for a valid forest, given in any
\* order, holds every node of the forest once, each at a later position than
\* its parent and than every other ancestor of it.
C15_ParentsFirst ==
    (Sorted /\ ValidForest) =>
        /\ Len(response) = Len(request)
        /\ \A n \in 1..Len(request) : \E i \in 1..Len(response) :
              Authored(response[i]) = request[n]
        /\ \A i \in 1..Len(response) :
              \A key \in AncestorsOf(request, response[i], Len(request)) :
                 \E j \in 1..(i - 1) : Key(response[j]) = key

\* A chain of three nodes given leaf first and returned root first, next to
\* a second root.
C15_Witness ==
    /\ Sorted /\ ValidForest
    /\ Len(request) = 4
    /\ request[1].parent_external_node_id = request[2].external_id
    /\ request[2].parent_external_node_id = request[3].external_id
    /\ request[3].parent_external_node_id = None
    /\ \E i, j, k \in 1..4 :
          /\ i < j /\ j < k
          /\ Authored(response[i]) = request[3]
          /\ Authored(response[j]) = request[2]
          /\ Authored(response[k]) = request[1]

\* The BFS level of a node of the last sort's list: the number of its ancestors.
Level(tn) == Cardinality(AncestorsOf(request, tn, Len(request)))

\* C16: the list sort_thing_nodes returns for a valid forest is ordered by
\* level, the roots first, and inside each level, the level of the roots
\* included, by external_id, whatever the order of the list given.
C16_LevelOrder ==
    (Sorted /\ ValidForest) =>
        \A i, j \in 1..Len(response) :
            i < j =>
                \/ Level(response[i]) < Level(response[j])
                \/ /\ Level(response[i]) = Level(response[j])
                   /\ Rank(response[i].external_id) < Rank(response[j].external_id)

\* Two roots given as b, a are returned as b, a.
C16_RootsAsGiven ==
    /\ Sorted /\ ValidForest
    /\ Len(request) = 2
    /\ request[1].parent_external_node_id = None
    /\ request[2].parent_external_node_id = None
    /\ <<request[1].external_id, request[2].external_id>> = <<"b", "a">>
    /\ <<response[1].external_id, response[2].external_id>> = <<"b", "a">>

\* The roots a and b, d the child of a and c the child of b: the second level
\* is returned as d, c.
C16_LevelGroupedByParent ==
    /\ Sorted /\ ValidForest
    /\ Len(request) = 4
    /\ <<response[1].external_id, response[2].external_id,
         response[3].external_id, response[4].external_id>> = <<"a", "b", "d", "c">>
    /\ Level(response[3]) = 1 /\ Level(response[4]) = 1
    /\ response[3].parent_external_node_id = "a"
    /\ response[4].parent_external_node_id = "b"

\* What the traversal does order: the levels, and inside a level the children
\* of one parent among themselves.
C16_SiblingsOrdered ==
    (Sorted /\ ValidForest) =>
        \A i, j \in 1..Len(response) :
            i < j =>
                \/ Level(response[i]) < Level(response[j])
                \/ /\ Level(response[i]) = Level(response[j])
                   /\ \/ response[i].parent_external_node_id = None
                      \/ response[i].parent_external_node_id
                            # response[j].parent_external_node_id
                      \/ Rank(response[i].external_id) < Rank(response[j].external_id)

----------------------------------------------------------------------------
(* get_children on the stored structure.                                     *)

\* update_structure calls before the structure is browsed.
MaxUpdates == 2

\* StructureServiceThingNode.from_orm_model: the model object of a row.
ThingNode_from_orm_model(orm_model) ==
    [id |-> orm_model.id,
     external_id |-> orm_model.external_id,
     stakeholder_key |-> orm_model.stakeholder_key,
     name |-> orm_model.name,
     parent_node_id |-> orm_model.parent_node_id,
     parent_external_node_id |-> orm_model.parent_external_node_id,
     element_type_id |-> orm_model.element_type_id,
     element_type_external_id |-> orm_model.element_type_external_id]

\* StructureServiceSource.from_orm_model and StructureServiceSink.from_orm_model.
SourceOrSink_from_orm_model(orm_model, reference) ==
    [id |-> orm_model.id,
     external_id |-> orm_model.external_id,
     stakeholder_key |-> orm_model.stakeholder_key,
     name |-> orm_model.name,
     type |-> orm_model.type,
     preset_filters |-> orm_model.preset_filters,
     adapter_key |-> orm_model.adapter_key,
     ref_key |-> orm_model.ref_key,
     ref_id |-> orm_model.ref_id,
     thing_node_external_ids |-> orm_model.thing_node_external_ids]
    @@ [f \in {reference} |-> orm_model[reference]]

Children(thing_nodes, sources, sinks, error) ==
    [thing_nodes |-> thing_nodes, sources |-> sources, sinks |-> sinks,
     error |-> error]

\* get_children returning the sources and sinks linked to the node or to one
\* of its children.
get_children_with_childrens_links(d, parent_id) ==
    Bind({ThingNode_from_orm_model(node) :
            node \in {n \in d.thing_nodes : n.parent_node_id = parent_id}},
         LAMBDA child_nodes :
            IF parent_id = NoId THEN Children(child_nodes, {}, {}, "")
            ELSE IF \A n \in d.thing_nodes : n.id # parent_id
            THEN Children({}, {}, {}, "DBNotFoundError")
            ELSE Children(child_nodes,
                          {SourceOrSink_from_orm_model(s, "source_id") :
                              s \in {r \in d.sources :
                                        \E id \in {parent_id}
                                                  \cup {n.id : n \in child_nodes} :
                                           <<id, r.id>>
                                               \in d.thingnode_source_association}},
                          {SourceOrSink_from_orm_model(s, "sink_id") :
                              s \in {r \in d.sinks :
                                        \E id \in {parent_id}
                                                  \cup {n.id : n \in child_nodes} :
                                           <<id, r.id>>
                                               \in d.thingnode_sink_association}},
                          ""))

\* get_children; parent_id NoId is None.  The three lists are returned as sets:
\* the queries have no ORDER BY.
get_children(d, parent_id) ==
    Bind({ThingNode_from_orm_model(node) :
            node \in {n \in d.thing_nodes : n.parent_node_id = parent_id}},
         LAMBDA child_nodes :
            IF parent_id = NoId THEN Children(child_nodes, {}, {}, "")
            ELSE IF \A n \in d.thing_nodes : n.id # parent_id
            THEN Children({}, {}, {}, "DBNotFoundError")
            ELSE Children(child_nodes,
                          {SourceOrSink_from_orm_model(s, "source_id") :
                              s \in {r \in d.sources :
                                        <<parent_id, r.id>>
                                            \in d.thingnode_source_association}},
                          {SourceOrSink_from_orm_model(s, "sink_id") :
                              s \in {r \in d.sinks :
                                        <<parent_id, r.id>>
                                            \in d.thingnode_sink_association}},
                          ""))

\* A plant: node a with its child b, sources and a sink on either or both.
ChildB == ThingNode("s1", "b", "Node b", "a", "e1")

PlantDocs ==
    {Doc(<<Type1>>, <<RootA, ChildB>>,
         <<Source("s1", "x", "Source x", <<"a">>),
           Source("s1", "z", "Source z", ids)>>,
         <<Sink("s1", "y", "Sink y", <<"b">>)>>) :
        ids \in {<<"b">>, <<"a", "b">>}}

BrowsedDocuments ==
    {doc \in HierarchyDocs \cup PlantDocs : ValidCompleteStructure(doc)}

\* update_structure on a document, before the structure is browsed.
LoadStructure ==
    /\ ops < MaxUpdates
    /\ request = Nothing
    /\ \E doc \in BrowsedDocuments :
          \E S \in {CompleteStructure(ops + 1, doc)} :
             \E out \in {update_structure(db, fk, S)} :
                Call("update_structure", S, out, FALSE)

\* The ids a caller browses with: none, the id of a stored node, an id of no
\* stored node.
ParentIds(d) ==
    {NoId, uuid4("tn", 9, "s1", "gone")} \cup {n.id : n \in d.thing_nodes}

\* get_children(parent_id) on the stored structure.
GetChildren ==
    /\ request = Nothing
    /\ \E parent_id \in ParentIds(db) :
          /\ request' = [parent_id |-> parent_id]
          /\ response' = get_children(db, parent_id)
          /\ last' = [last EXCEPT !.op = "get_children",
                                  !.error = response'.error]
          /\ UNCHANGED <<db, fk, pre, ops, workflow_wiring, submitted>>

NextBrowse == LoadStructure \/ GetChildren

SpecBrowse == Init /\ [][NextBrowse]_vars

Browsed == last.op = "get_children"

\* C17: get_children(None) on a structure built by update_structure calls
\* returns the stored thing nodes that have no parent_external_node_id, all of
\* them and no other node, with no sources and no sinks; a node that the last
\* document turned from a child into a root is among them.
C17_RootsReturned ==
    (Browsed /\ request.parent_id = NoId) =>
        /\ Succeeded
        /\ response.thing_nodes =
              {ThingNode_from_orm_model(n) :
                  n \in {r \in db.thing_nodes : r.parent_external_node_id = None}}
        /\ response.sources = {} /\ response.sinks = {}

\* Node b was stored as a child of a, a later document made it a root, and
\* get_children(None) does not return it.
C17_FormerChildMissing ==
    /\ Browsed /\ request.parent_id = NoId
    /\ last.S.gen = 2 /\ Succeeded
    /\ \A i \in 1..Len(last.S.thing_nodes) :
          last.S.thing_nodes[i].element_type_external_id = "e1"
    /\ \E b \in db.thing_nodes :
          /\ b.external_id = "b"
          /\ b.parent_external_node_id = None
          /\ b.parent_node_id # NoId
          /\ \A n \in response.thing_nodes : n.id # b.id

\* C18: get_children with the id of a stored thing node returns the thing
\* nodes whose parent_node_id is that id and the sources and sinks that the
\* association tables link to that node, all of them and no other; with an
\* id of no stored thing node it raises DBNotFoundError and returns nothing.
C18_DirectChildren ==
    (Browsed /\ request.parent_id # NoId) =>
        IF \E n \in db.thing_nodes : n.id = request.parent_id
        THEN /\ Succeeded
             /\ response.thing_nodes \subseteq db.thing_nodes
             /\ response.sources \subseteq db.sources
             /\ response.sinks \subseteq db.sinks
             /\ \A n \in db.thing_nodes :
                   n \in response.thing_nodes <=> n.parent_node_id = request.parent_id
             /\ \A s \in db.sources :
                   s \in response.sources <=>
                       <<request.parent_id, s.id>> \in db.thingnode_source_association
             /\ \A s \in db.sinks :
                   s \in response.sinks <=>
                       <<request.parent_id, s.id>> \in db.thingnode_sink_association
        ELSE /\ last.error = "DBNotFoundError"
             /\ response.thing_nodes = {}
             /\ response.sources = {} /\ response.sinks = {}

\* Browsing node a of the plant: its child b and the sources linked to a are
\* returned, the sink linked only to b is not.
C18_Witness ==
    /\ Browsed /\ Succeeded
    /\ \E a \in db.thing_nodes :
          /\ a.external_id = "a" /\ a.id = request.parent_id
          /\ {n.external_id : n \in response.thing_nodes} = {"b"}
          /\ {s.external_id : s \in response.sources} = {"x", "z"}
          /\ response.sinks = {}
          /\ \E b \in response.thing_nodes :
                \E y \in db.sinks : <<b.id, y.id>> \in db.thingnode_sink_association

----------------------------------------------------------------------------
(* PUT /structure/update.                                                    *)

\* pydantic's SecretStr and its get_secret_value.
SecretStr(value) == [secret_value |-> value]

get_secret_value(secret_str) == secret_str.secret_value

\* secrets.compare_digest: whether the two strings are equal.
compare_digest(a, b) == a = b

\* get_config().maintenance_secret of the running service.
configured_maintenance_secret == SecretStr("testsecret")

\* The answer of the endpoint: the status code, the database the request
\* leaves and the service calls it made.
Answer(status_code, d, calls) ==
    [status_code |-> status_code, db |-> d, calls |-> calls]

\* The try block around update_structure and the mapping of its exceptions.
UpdateAnswer(d, enforced, new_structure, calls) ==
    Bind(update_structure(d, enforced, new_structure), LAMBDA updated :
        Answer(IF updated.error = "" THEN 204
               ELSE IF updated.error = "DBNotFoundError" THEN 404
               ELSE 500,
               updated.db, Append(calls, "update_structure")))

\* update_structure_endpoint deleting the existing structure before it
\* compares the secrets.
update_structure_endpoint_deleting_first(d, enforced, maintenance_payload, new_structure, delete_existing_structure) ==
    IF delete_existing_structure /\ ~are_structure_tables_empty(d)
    THEN Bind(delete_structure(d, enforced), LAMBDA deleted :
            IF deleted.error # ""
            THEN Answer(500, deleted.db, <<"delete_structure">>)
            ELSE IF ~compare_digest(get_secret_value(maintenance_payload.maintenance_secret),
                                    get_secret_value(configured_maintenance_secret))
            THEN Answer(403, deleted.db, <<"delete_structure">>)
            ELSE UpdateAnswer(deleted.db, enforced, new_structure,
                              <<"delete_structure">>))
    ELSE IF ~compare_digest(get_secret_value(maintenance_payload.maintenance_secret),
                            get_secret_value(configured_maintenance_secret))
    THEN Answer(403, d, <<>>)
    ELSE UpdateAnswer(d, enforced, new_structure, <<>>)

\* The handler of PUT /structure/update, called with the parsed request: a
\* MaintenancePayload, a validated CompleteStructure and the query flag.
update_structure_endpoint(d, enforced, maintenance_payload, new_structure, delete_existing_structure) ==
    IF ~compare_digest(get_secret_value(maintenance_payload.maintenance_secret),
                       get_secret_value(configured_maintenance_secret))
    THEN Answer(403, d, <<>>)
    ELSE IF delete_existing_structure /\ ~are_structure_tables_empty(d)
    THEN Bind(delete_structure(d, enforced), LAMBDA deleted :
            IF deleted.error # ""
            THEN Answer(500, deleted.db, <<"delete_structure">>)
            ELSE UpdateAnswer(deleted.db, enforced, new_structure,
                              <<"delete_structure">>))
    ELSE UpdateAnswer(d, enforced, new_structure, <<>>)

\* The secrets a client presents: the configured one, another one, a prefix
\* of the configured one and the empty string.
PresentedSecrets == {"testsecret", "nf", "testsecre", ""}

\* One PUT /structure/update on the database an earlier run left.
UpdateStructureEndpoint ==
    /\ last.op = "none"
    /\ \E secret \in PresentedSecrets, delete_existing_structure \in BOOLEAN,
          doc \in Documents :
          \E S \in {CompleteStructure(1, doc)} :
          \E out \in {update_structure_endpoint(
                          db, fk, [maintenance_secret |-> SecretStr(secret)], S,
                          delete_existing_structure)} :
             /\ db' = out.db
             /\ pre' = db
             /\ request' = [maintenance_secret |-> secret,
                            delete_existing_structure |-> delete_existing_structure]
             /\ response' = [status_code |-> out.status_code]
             /\ last' = [last EXCEPT !.op = "update_structure_endpoint", !.S = S,
                                     !.calls = out.calls]
             /\ ops' = ops + 1
             /\ UNCHANGED <<fk, workflow_wiring, submitted>>

NextEndpoint == UpdateStructureEndpoint

SpecEndpoint == InitPrepopulate /\ [][NextEndpoint]_vars

Requested == last.op = "update_structure_endpoint"

C19_Accepted ==
    /\ Requested
    /\ request.maintenance_secret = "testsecret"
    /\ last.calls = <<"delete_structure", "update_structure">>
    /\ response.status_code = 204
    /\ db # pre

----------------------------------------------------------------------------
(* Validation of a document by the CompleteStructure model.                  *)

\* The errors of the ValidationError the construction raises: every root
\* validator runs, and the message of each one that raises is collected.
ValidationErrors(doc) ==
    {e \in {"The structure must include at least one",
            "has an invalid parent_external_node_id",
            "The stakeholder key and external id pair",
            "The thing_node_external_ids attribute",
            "Inconsistent stakeholder_key",
            "Circular reference detected",
            "references non-existing StructureServiceThingNode"} :
        \/ (e = "The structure must include at least one" /\ ~check_element_types_not_empty(doc))
        \/ (e = "has an invalid parent_external_node_id" /\ ~validate_root_nodes_parent_ids_are_none(doc))
        \/ (e = "The stakeholder key and external id pair" /\ ~check_for_duplicate_key_and_id_pairs(doc))
        \/ (e = "The thing_node_external_ids attribute" /\ ~check_for_duplicate_ids_in_thing_node_external_ids(doc))
        \/ (e = "Inconsistent stakeholder_key" /\ ~check_stakeholder_key_consistency(doc))
        \/ (e = "Circular reference detected" /\ ~check_for_circular_reference(doc))
        \/ (e = "references non-existing StructureServiceThingNode" /\ ~validate_source_sink_references(doc))}

\* The thing-node lists of the validated documents: up to max nodes with
\* pairwise different keys, of two stakeholders, in every order, each a root or
\* naming any external id as parent.
NodeKeys == {<<"s1", "a">>, <<"s1", "b">>, <<"s1", "c">>, <<"s2", "a">>, <<"s2", "b">>}

ValidatedLists(max) ==
    UNION {{[i \in 1..m |->
                ThingNode(keys[i][1], keys[i][2], keys[i][2], parents[i], "e1")] :
                keys \in {f \in [1..m -> NodeKeys] :
                             \A i, j \in 1..m : i # j => f[i] # f[j]},
                parents \in [1..m -> {None, "a", "b", "c"}]} :
           m \in 0..max}

\* The construction of a CompleteStructure from a document.
ValidateStructure ==
    /\ last.op = "none"
    /\ \E thing_nodes \in ValidatedLists(MaxNodes) :
          /\ request' = thing_nodes
          /\ response' = [errors |-> ValidationErrors(
                                        Doc(<<Type1>>, thing_nodes, <<>>, <<>>))]
          /\ last' = [last EXCEPT !.op = "CompleteStructure",
                                  !.error = IF response'.errors = {} THEN ""
                                            ELSE "ValidationError"]
          /\ ops' = ops + 1
          /\ UNCHANGED <<db, fk, pre, workflow_wiring, submitted>>

NextValidate == ValidateStructure

SpecValidate == InitSort /\ [][NextValidate]_vars

Validated == last.op = "CompleteStructure"

\* The parent relation of a list of thing nodes, as set_parent_ids resolves it
\* by stakeholder_key and parent_external_node_id, holds a cycle.
HasCycle(thing_nodes) ==
    \E i \in 1..Len(thing_nodes) :
        Key(thing_nodes[i]) \in AncestorsOf(thing_nodes, thing_nodes[i], Len(thing_nodes))

\* C20: the validation of a document raises an error with "Circular reference
\* detected" when the parent relation of its thing nodes holds a cycle, of one
\* node or of more, and raises no such error when it holds none.
C20_CycleRejection ==
    Validated =>
        ("Circular reference detected" \in response.errors <=> HasCycle(request))

\* Nodes a and b of stakeholder s1 name each other as parent, and the roots a
\* and b of stakeholder s2 follow them in the list: the document is rejected
\* without "Circular reference detected".
C20_CycleNotReported ==
    /\ Validated
    /\ Len(request) = 4
    /\ HasCycle(request)
    /\ \A i \in 1..2 : request[i].stakeholder_key = "s1"
    /\ \A i \in 3..4 : /\ request[i].stakeholder_key = "s2"
                       /\ request[i].parent_external_node_id = None
    /\ response.errors # {}
    /\ "Circular reference detected" \notin response.errors

\* Two chains without a cycle, a below b in stakeholder s1 and b below a in
\* stakeholder s2: "Circular reference detected" is raised.
C20_CycleReportedWithoutCycle ==
    /\ Validated
    /\ Len(request) = 4
    /\ ~HasCycle(request)
    /\ \A i \in 1..4 :
          request[i].parent_external_node_id # None =>
              parent_tn(request, request[i]) # {}
    /\ "Circular reference detected" \in response.errors

\* The same law for the documents whose thing nodes are of one stakeholder.
C20_OneStakeholder ==
    (Validated /\ \A i \in 1..Len(request) : request[i].stakeholder_key = "s1") =>
        ("Circular reference detected" \in response.errors <=> HasCycle(request))

\* A document accepted by the validation holds no cycle.
C20_AcceptedIsAcyclic ==
    (Validated /\ Succeeded) => ~HasCycle(request)

\* The nodes a node names as its parent: the node of its own stakeholder_key
\* and parent_external_node_id if the list holds one, else the nodes of that
\* external_id.
NamedParents(thing_nodes, tn) ==
    IF tn.parent_external_node_id = None THEN {}
    ELSE IF parent_tn(thing_nodes, tn) # {} THEN parent_tn(thing_nodes, tn)
    ELSE {m \in Range(thing_nodes) : m.external_id = tn.parent_external_node_id}

\* The roots a node hangs under, following the named parents for at most fuel
\* steps.
RECURSIVE RootsAbove(_, _, _)
RootsAbove(thing_nodes, tn, fuel) ==
    IF tn.parent_external_node_id = None THEN {tn}
    ELSE IF fuel = 0 THEN {}
    ELSE UNION {RootsAbove(thing_nodes, parent, fuel - 1) :
                   parent \in NamedParents(thing_nodes, tn)}

\* Every node reachable from a root has that root's stakeholder_key.
Homogeneous(thing_nodes) ==
    \A i \in 1..Len(thing_nodes) :
        \A root \in RootsAbove(thing_nodes, thing_nodes[i], Len(thing_nodes)) :
            root.stakeholder_key = thing_nodes[i].stakeholder_key

\* C21: the validation accepts a document only if every thing node reachable
\* from a root has that root's stakeholder_key, and it raises no "Inconsistent
\* stakeholder_key" for a document whose trees are each of one stakeholder,
\* trees of two stakeholders sharing external ids included.
C21_StakeholderHomogeneity ==
    Validated =>
        /\ Succeeded => Homogeneous(request)
        /\ Homogeneous(request) => "Inconsistent stakeholder_key" \notin response.errors

\* Two trees, a with its child b, one of stakeholder s1 and one of s2: rejected
\* with "Inconsistent stakeholder_key" and no other error.
C21_TwinTreesRejected ==
    /\ Validated
    /\ Len(request) = 4
    /\ \A i \in 1..4 : request[i].parent_external_node_id =
                          IF request[i].external_id = "a" THEN None ELSE "a"
    /\ {Key(request[i]) : i \in 1..4}
          = {<<"s1", "a">>, <<"s1", "b">>, <<"s2", "a">>, <<"s2", "b">>}
    /\ response.errors = {"Inconsistent stakeholder_key"}

\* Root a of s1, then b of s2 and b of s1, both naming a as parent: accepted,
\* with b of s2 below a root of s1.
C21_ForeignChildAccepted ==
    /\ Validated /\ Succeeded
    /\ Len(request) = 3
    /\ <<Key(request[1]), Key(request[2]), Key(request[3])>>
          = <<<<"s1", "a">>, <<"s2", "b">>, <<"s1", "b">>>>
    /\ request[2].parent_external_node_id = "a"
    /\ request[3].parent_external_node_id = "a"
    /\ ~Homogeneous(request)

\* The same law for the documents whose thing nodes have pairwise different
\* external ids.
C21_UniqueExternalIds ==
    (/\ Validated
     /\ \A i, j \in 1..Len(request) :
           i # j => request[i].external_id # request[j].external_id) =>
        /\ Succeeded => Homogeneous(request)
        /\ Homogeneous(request) => "Inconsistent stakeholder_key" \notin response.errors

----------------------------------------------------------------------------
(* Links of validated documents at the association rebuild.                  *)

\* The entries of thing_node_external_ids that the association rebuild of
\* upsert_sources and upsert_sinks left without a link.
DroppedLinks(table, assoc, e) ==
    {i \in DOMAIN e.thing_node_external_ids :
        \E r \in table :
            /\ Key(r) = Key(e)
            /\ ~\E n \in StoredThingNodes(e.stakeholder_key,
                                          e.thing_node_external_ids[i]) :
                    <<n.id, r.id>> \in assoc}

\* C22: for every document accepted by validation, every entry of every
\* source's and sink's thing_node_external_ids resolves at the association
\* rebuild, so after a successful update_structure no link was dropped.
C22_NoLinkDropped ==
    (Updated /\ Succeeded) =>
        /\ \A s \in Range(last.S.sources) :
              DroppedLinks(db.sources, db.thingnode_source_association, s) = {}
        /\ \A s \in Range(last.S.sinks) :
              DroppedLinks(db.sinks, db.thingnode_sink_association, s) = {}

\* A source of stakeholder s2 names a thing node that exists only under s1:
\* the document is accepted and stored, the source without its link.
C22_ForeignNodeDropped ==
    /\ Updated /\ Succeeded
    /\ \A n \in Range(last.S.thing_nodes) :
          \E t \in Range(last.S.element_types) :
              Key(t) = <<n.stakeholder_key, n.element_type_external_id>>
    /\ \E s \in Range(last.S.sources) :
          /\ s.thing_node_external_ids # <<>>
          /\ \E r \in db.sources : Key(r) = Key(s)
          /\ DroppedLinks(db.sources, db.thingnode_source_association, s)
                = DOMAIN s.thing_node_external_ids

----------------------------------------------------------------------------
(* Substring search over the names of sources and sinks. Names and queries   *)
(* are sequences of characters here, so that the pattern can be matched.     *)

MaxQuery == 2

Characters == {"a", "A", "b", "%", "_"}

\* The case folding of ILIKE.
lower(s) ==
    [i \in DOMAIN s |-> IF s[i] = "A" THEN "a" ELSE IF s[i] = "B" THEN "b" ELSE s[i]]

\* The pattern of the query: f"%{filter_string}%".
pattern_of(filter_string) == <<"%">> \o filter_string \o <<"%">>

\* LIKE: % stands for any run of characters, _ for any one character.
RECURSIVE like(_, _)
like(pattern, s) ==
    IF pattern = <<>> THEN s = <<>>
    ELSE IF Head(pattern) = "%"
         THEN \E k \in 0..Len(s) : like(Tail(pattern), SubSeq(s, k + 1, Len(s)))
    ELSE IF s = <<>> THEN FALSE
    ELSE /\ Head(pattern) = "_" \/ Head(pattern) = Head(s)
         /\ like(Tail(pattern), Tail(s))

\* column.ilike(pattern)
ilike(column, pattern) == like(lower(pattern), lower(column))

\* The matching sources or sinks as pydantic objects.
fetch_by_substring_match(table, reference, filter_string) ==
    {SourceOrSink_from_orm_model(r, reference) :
        r \in {m \in table : ilike(m.name, pattern_of(filter_string))}}

fetch_sources_by_substring_match(d, filter_string) ==
    fetch_by_substring_match(d.sources, "source_id", filter_string)

fetch_sinks_by_substring_match(d, filter_string) ==
    fetch_by_substring_match(d.sinks, "sink_id", filter_string)

SearchedNames ==
    {<<"a", "b">>, <<"A", "_">>, <<"b", "%", "a">>, <<"b">>, <<"B", "a", "a">>}

\* One thing node with two sources and a sink of the searched names; the
\* names of the sources of a catalog are unique.
SearchedDocuments ==
    {Doc(<<Type1>>, <<RootA>>,
         <<Source("s1", "x", n[1], <<"a">>), Source("s1", "z", n[2], <<"a">>)>>,
         <<Sink("s1", "y", n3, <<"a">>)>>) :
        n \in {p \in SearchedNames \X SearchedNames : p[1] # p[2]},
        n3 \in {<<"a", "b">>, <<"A", "_">>}}

Queries(max) ==
    UNION {[1..n -> Characters] : n \in 0..max}

InitSearch ==
    /\ fk = FALSE
    /\ db \in {update_structure(EmptyDB, fk, CompleteStructure(0, doc)).db :
                  doc \in SearchedDocuments}
    /\ pre = db
    /\ last = [op |-> "none", S |-> NoStructure, error |-> "", calls |-> <<>>,
               again |-> FALSE, overwrite |-> FALSE]
    /\ ops = 0
    /\ workflow_wiring = NoWiring
    /\ submitted = NoWiring
    /\ request = Nothing
    /\ response = Nothing

FetchSourcesBySubstringMatch ==
    \E filter_string \in Queries(MaxQuery) :
        /\ request' = [filter_string |-> filter_string, table |-> "sources"]
        /\ response' = fetch_sources_by_substring_match(db, filter_string)
        /\ last' = [last EXCEPT !.op = "fetch_by_substring_match"]
        /\ UNCHANGED <<db, fk, pre, ops, workflow_wiring, submitted>>

FetchSinksBySubstringMatch ==
    \E filter_string \in Queries(MaxQuery) :
        /\ request' = [filter_string |-> filter_string, table |-> "sinks"]
        /\ response' = fetch_sinks_by_substring_match(db, filter_string)
        /\ last' = [last EXCEPT !.op = "fetch_by_substring_match"]
        /\ UNCHANGED <<db, fk, pre, ops, workflow_wiring, submitted>>

NextSearch == FetchSourcesBySubstringMatch \/ FetchSinksBySubstringMatch

SpecSearch == InitSearch /\ [][NextSearch]_vars

Searched == last.op = "fetch_by_substring_match"

\* The query occurs in the name as a run of the same characters, ignoring case.
ContainsIgnoringCase(name, query) ==
    \E k \in 0..(Len(name) - Len(query)) :
        SubSeq(lower(name), k + 1, k + Len(query)) = lower(query)

\* C23: for every query string the search returns exactly the stored sources
\* (resp. sinks) whose name contains the query as a literal substring ignoring
\* case, also for queries that contain % or _.
C23_SubstringSearch ==
    Searched =>
        {r.id : r \in response} =
            {r.id : r \in {m \in db[request.table] :
                              ContainsIgnoringCase(m.name, request.filter_string)}}

\* A query with _ returns a source whose name does not contain the query.
C23_WildcardMatches ==
    /\ Searched
    /\ \E i \in DOMAIN request.filter_string : request.filter_string[i] = "_"
    /\ \E r \in response : ~ContainsIgnoringCase(r.name, request.filter_string)

\* For queries without % and _ the search is the substring search.
C23_PlainQueries ==
    (Searched /\ \A i \in DOMAIN request.filter_string :
                    request.filter_string[i] \notin {"%", "_"})
        => C23_SubstringSearch

----------------------------------------------------------------------------
(* Thing nodes whose element type is not in the document.                    *)

\* The thing nodes of a document that are not stored.
LeftOut(S) ==
    {n \in Range(S.thing_nodes) :
        StoredThingNodes(n.stakeholder_key, n.external_id) = {}}

\* C24: update_structure of a validated document either stores every thing
\* node of the document or fails with an error; it never commits while
\* leaving a thing node out.
C24_NoSilentOmission ==
    Updated => (Succeeded => LeftOut(last.S) = {})

\* update_structure committed and left out a thing node whose
\* element_type_external_id names no element type of the document.
C24_UntypedNodeLeftOut ==
    /\ Updated /\ Succeeded
    /\ \E n \in LeftOut(last.S) :
          \A t \in Range(last.S.element_types) :
              Key(t) # <<n.stakeholder_key, n.element_type_external_id>>

\* With every element type in the document no thing node is left out.
C24_TypedNodesStored ==
    (Updated /\ Succeeded
        /\ \A n \in Range(last.S.thing_nodes) :
              \E t \in Range(last.S.element_types) :
                  Key(t) = <<n.stakeholder_key, n.element_type_external_id>>)
        => LeftOut(last.S) = {}

----------------------------------------------------------------------------
(* Internal ids across a prepopulation.                                      *)

\* The rows stored before the call whose entity is stored after it under
\* another internal id.
Reidentified(before, after) ==
    {r \in UNION {before[t] : t \in EntityTables} :
        \E t \in EntityTables : \E q \in after[t] :
            r \in before[t] /\ Key(q) = Key(r) /\ q.id # r.id}

\* C25: an entity that has received an internal UUID keeps it through every
\* later import of a document containing its (stakeholder_key, external_id),
\* the overwrite path of prepopulate_structure included.
C25_IdentityStable ==
    last.op = "prepopulate_structure" => Reidentified(pre, db) = {}

\* The overwrite path stored an entity of the earlier structure again, under a
\* new internal id.
C25_OverwriteGivesNewId ==
    /\ last.op = "prepopulate_structure"
    /\ last.overwrite /\ Succeeded
    /\ last.calls = <<"delete_structure", "update_structure">>
    /\ \E r \in Reidentified(pre, db) : r \in pre.thing_nodes

\* Without the deletion every stored entity keeps its internal id.
C25_StableWithoutDeletion ==
    (last.op = "prepopulate_structure" /\ last.calls = <<"update_structure">>)
        => Reidentified(pre, db) = {}

----------------------------------------------------------------------------
(* The fetch by ids with a batch_size given by the caller.                   *)

MaxIds == 3
MaxBatchSize == 3

\* fetch_collection_of_sources_from_db_by_id and
\* fetch_collection_of_sinks_from_db_by_id with both parameters: the IN
\* queries issued, the dict built from their results and the error raised.
FetchCollectionBatched(table, ids, size) ==
    IF ids = <<>> THEN {[queries |-> <<>>, returned |-> <<>>, error |-> ""]}
    ELSE {[queries |-> id_batches(ids, size),
           returned |-> dict,
           error |-> IF dict = <<>> THEN "DBNotFoundError" ELSE ""] :
            dict \in FetchBatches(table, id_batches(ids, size), <<>>)}

\* A catalog of three sources and two sinks.
FetchedDocument ==
    Doc(<<Type1>>, <<RootA>>,
        <<Source("s1", "x", "Source x", <<"a">>), Source("s1", "z", "Source z", <<"a">>),
          Source("s1", "v", "Source v", <<>>)>>,
        <<Sink("s1", "y", "Sink y", <<"a">>), Sink("s1", "w", "Sink w", <<>>)>>)

\* The id lists a caller can pass: ids of stored rows and an id of no row.
IdLists(table, kind, max) ==
    Lists({r.id : r \in table} \cup {uuid4(kind, 9, "s1", "gone")}, max)

InitFetch ==
    /\ fk = FALSE
    /\ db = update_structure(EmptyDB, fk, CompleteStructure(0, FetchedDocument)).db
    /\ pre = db
    /\ last = [op |-> "none", S |-> NoStructure, error |-> "", calls |-> <<>>,
               again |-> FALSE, overwrite |-> FALSE]
    /\ ops = 0
    /\ workflow_wiring = NoWiring
    /\ submitted = NoWiring
    /\ request = Nothing
    /\ response = Nothing

\* One fetch, which leaves the database as it is.
Fetch(table, ids, size) ==
    /\ request = Nothing
    /\ request' = [table |-> table, ids |-> ids, batch_size |-> size]
    /\ response' \in FetchCollectionBatched(db[table], ids, size)
    /\ last' = [last EXCEPT !.op = "fetch_collection", !.error = response'.error]
    /\ UNCHANGED <<db, fk, pre, ops, workflow_wiring, submitted>>

FetchCollectionOfSources ==
    \E size \in 1..MaxBatchSize : \E src_ids \in IdLists(db.sources, "src", MaxIds) :
        Fetch("sources", src_ids, size)

FetchCollectionOfSinks ==
    \E size \in 1..MaxBatchSize : \E sink_ids \in IdLists(db.sinks, "snk", MaxIds) :
        Fetch("sinks", sink_ids, size)

NextFetch == FetchCollectionOfSources \/ FetchCollectionOfSinks

SpecFetch == InitFetch /\ [][NextFetch]_vars

Fetched == last.op = "fetch_collection"

\* The ids of a list of batches, in order.
RECURSIVE chain(_)
chain(batches) ==
    IF batches = <<>> THEN <<>> ELSE Head(batches) \o chain(Tail(batches))

\* C26: for every non-empty id list and every batch_size >= 1 each IN query
\* of the fetch holds at most batch_size ids, and every requested id is in
\* exactly one query.
C26_BatchBound ==
    (Fetched /\ request.ids # <<>>) =>
        /\ \A i \in DOMAIN response.queries :
              Len(response.queries[i]) <= request.batch_size
        /\ chain(response.queries) = request.ids

\* A fetch of three ids with batch_size 1 asks for all three in one query.
C26_OneQueryForAll ==
    /\ Fetched
    /\ request.batch_size = 1
    /\ Len(request.ids) = 3
    /\ response.queries = <<request.ids>>

\* Every requested id is in exactly one query, whatever the batch_size.
C26_EveryIdOnce ==
    Fetched => chain(response.queries) = request.ids

\* With no more ids than batch_size the queries hold one id each.
C26_SingletonQueries ==
    (Fetched /\ request.ids # <<>> /\ Len(request.ids) <= request.batch_size) =>
        \A i \in DOMAIN response.queries : Len(response.queries[i]) = 1

----------------------------------------------------------------------------
(* sort_thing_nodes on the thing nodes of validated documents.               *)

\* sort_thing_nodes on a document of two stakeholders that the validation
\* of CompleteStructure accepted.
SortValidatedThingNodes ==
    /\ last.op = "none"
    /\ \E authored \in ValidatedLists(MaxNodes) :
          /\ ValidationErrors(Doc(<<Type1>>, authored, <<>>, <<>>)) = {}
          /\ \E S \in {CompleteStructure(1, Doc(<<Type1>>, authored, <<>>, <<>>))} :
                /\ request' = authored
                /\ response' = sort_thing_nodes(S.thing_nodes)
                /\ last' = [last EXCEPT !.op = "sort_thing_nodes", !.S = S]
                /\ ops' = ops + 1
                /\ UNCHANGED <<db, fk, pre, workflow_wiring, submitted>>

NextSortValidated == SortValidatedThingNodes

SpecSortValidated == InitSort /\ [][NextSortValidated]_vars

\* The positions of the returned list that hold a given node.
ReturnedAt(tn) == {i \in 1..Len(response) : Authored(response[i]) = tn}

\* The node names a parent that its stakeholder does not have.
Unresolved(thing_nodes, tn) ==
    tn.parent_external_node_id # None /\ parent_tn(thing_nodes, tn) = {}

\* C27: for every validated document sort_thing_nodes returns every thing
\* node of the document exactly once.
C27_NoElision ==
    Sorted => \A n \in 1..Len(request) : Cardinality(ReturnedAt(request[n])) = 1

\* A validated document with a node of stakeholder s2 below a node that only
\* stakeholder s1 has: the node is not in the returned list.
C27_OrphanLeftOut ==
    /\ Sorted
    /\ \E n \in 1..Len(request) :
          /\ Unresolved(request, request[n])
          /\ \E m \in 1..Len(request) :
                request[m].external_id = request[n].parent_external_node_id
          /\ ReturnedAt(request[n]) = {}

\* A node is left out only when its parent reference or that of one of its
\* ancestors does not resolve, and no node is returned twice.
C27_LeftOutOnlyUnresolved ==
    Sorted =>
        \A n \in 1..Len(request) :
            /\ Cardinality(ReturnedAt(request[n])) <= 1
            /\ ReturnedAt(request[n]) = {} =>
                  \/ Unresolved(request, request[n])
                  \/ \E m \in 1..Len(request) :
                        /\ Key(request[m]) \in
                              AncestorsOf(request, request[n], Len(request))
                        /\ Unresolved(request, request[m])

----------------------------------------------------------------------------
(* The overwrite path: delete_structure, then update_structure.              *)

\* The call took the overwrite path on a database holding a structure.
Overwrote ==
    /\ last.op \in {"prepopulate_structure", "update_structure_endpoint"}
    /\ last.calls # <<>>
    /\ last.calls[1] = "delete_structure"

\* C28: when the overwrite path runs on a database holding structure A and
\* update_structure of the new structure B fails, the database still holds A;
\* the final state is either A or B, never empty or partial.
C28_OverwriteAllOrNothing ==
    Overwrote =>
        \/ db = pre
        \/ Succeeded /\ \A t \in EntityTables : StoredAsAuthored(db[t], last.S[t])

\* The deletion is committed, update_structure of B fails, and the database
\* is left empty.
C28_EmptyAfterFailure ==
    /\ Overwrote
    /\ last.calls = <<"delete_structure", "update_structure">>
    /\ ~Succeeded
    /\ ~are_structure_tables_empty(pre)
    /\ db = EmptyDB

\* The same through PUT /structure/update with delete_existing_structure.
C28_EmptyAfterFailedRequest ==
    /\ last.op = "update_structure_endpoint"
    /\ last.calls = <<"delete_structure", "update_structure">>
    /\ response.status_code = 500
    /\ ~are_structure_tables_empty(pre)
    /\ db = EmptyDB

\* After the overwrite path the database is empty, or holds rows of B only.
C28_NothingOfAKept ==
    Overwrote =>
        \A t \in EntityTables : \A r \in db[t] :
            \E e \in Range(last.S[t]) : Authored(r) = Authored(e)

----------------------------------------------------------------------------
(* The WorkflowWiring after a failed resolution.                             *)

\* C29: whenever resolve_virtual_structure_wirings raises, every input and
\* output wiring of the WorkflowWiring equals its pre-call self.
C29_FailureLeavesWiring ==
    (Called /\ last.error # "") => workflow_wiring = submitted

\* The call raised ValueError from zip(strict=True) after the loop had
\* replaced a wiring of the caller's object.
C29_RewrittenBeforeError ==
    /\ Called
    /\ last.error = "ValueError"
    /\ \E i \in VstInputs :
          /\ workflow_wiring.input_wirings[i] # submitted.input_wirings[i]
          /\ workflow_wiring.input_wirings[i].adapter_id = "sql-adapter"

\* A call that raises AdapterHandlingException has rewritten nothing.
C29_NotFoundLeavesWiring ==
    (Called /\ last.error = "AdapterHandlingException") =>
        workflow_wiring = submitted

----------------------------------------------------------------------------
(* A reader next to an overwrite.  The overwrite of PUT /structure/update is  *)
(* two transactions, the one of delete_structure and the one of              *)
(* update_structure; a read runs in a session of its own and sees what is    *)
(* committed.  last holds the position of the overwrite, request and         *)
(* response the last read.                                                   *)

\* The database holds structure A of an earlier run; no request yet.
InitOverwrite ==
    /\ fk \in BOOLEAN
    /\ db \in {update_structure(EmptyDB, fk, CompleteStructure(0, doc)).db :
                  doc \in BrowsedDocuments}
    /\ pre = db
    /\ last = [op |-> "none", S |-> NoStructure, error |-> "", calls |-> <<>>,
               again |-> FALSE, overwrite |-> FALSE]
    /\ ops = 0
    /\ workflow_wiring = NoWiring
    /\ submitted = NoWiring
    /\ request = Nothing
    /\ response = Nothing

\* The request with structure B arrives and delete_structure commits.
OverwriteDelete ==
    /\ last.op = "none"
    /\ ~are_structure_tables_empty(db)
    /\ \E doc \in BrowsedDocuments :
          \E deleted \in {delete_structure(db, fk)} :
             /\ db' = deleted.db
             /\ last' = [op |-> "delete_structure", S |-> CompleteStructure(1, doc),
                         error |-> deleted.error, calls |-> <<"delete_structure">>,
                         again |-> FALSE, overwrite |-> TRUE]
             /\ UNCHANGED <<fk, pre, ops, workflow_wiring, submitted, request, response>>

\* update_structure of B commits or fails.
OverwriteUpdate ==
    /\ last.op = "delete_structure"
    /\ last.error = ""
    /\ \E updated \in {update_structure(db, fk, last.S)} :
          /\ db' = updated.db
          /\ last' = [last EXCEPT !.op = "update_structure",
                                  !.error = updated.error,
                                  !.calls = Append(@, "update_structure")]
          /\ UNCHANGED <<fk, pre, ops, workflow_wiring, submitted, request, response>>

\* get_children of a reader, at any moment.
ReadChildren ==
    \E parent_id \in ParentIds(db) :
        /\ request' = [parent_id |-> parent_id, during |-> last.op]
        /\ response' = get_children(db, parent_id)
        /\ UNCHANGED <<db, fk, pre, last, ops, workflow_wiring, submitted>>

NextOverwrite == OverwriteDelete \/ OverwriteUpdate \/ ReadChildren

SpecOverwrite == InitOverwrite /\ [][NextOverwrite]_vars

\* The catalog of structure B alone.
CatalogOfB == update_structure(EmptyDB, fk, last.S).db

\* C30: a read that runs concurrently with an overwrite from structure A to
\* structure B observes either all of A or all of B, never an empty catalog.
C30_ReadersSeeAOrB ==
    request # Nothing =>
        \/ response = get_children(pre, request.parent_id)
        \/ /\ last.op # "none"
           /\ response = get_children(CatalogOfB, request.parent_id)

\* A read between the two transactions: get_children(None) returns no thing
\* node although A and B both hold root nodes.
C30_EmptyCatalogObserved ==
    /\ request # Nothing
    /\ request.during = "delete_structure"
    /\ request.parent_id = NoId
    /\ response.error = ""
    /\ response.thing_nodes = get_children(EmptyDB, NoId).thing_nodes
    /\ get_children(pre, NoId).thing_nodes # response.thing_nodes
    /\ last.op = "update_structure" /\ Succeeded
    /\ get_children(db, NoId).thing_nodes # response.thing_nodes

\* A read before the deletion or after a successful update sees all of A or
\* all of B.
C30_OutsideTheGap ==
    /\ (request # Nothing /\ request.during = "none") =>
          response = get_children(pre, request.parent_id)
    /\ (request # Nothing /\ request.during = "update_structure" /\ Succeeded) =>
          response = get_children(CatalogOfB, request.parent_id)

====
